---- MODULE Spec2Model ----
(***************************************************************************)
(* Proposal / approval state machine, policy-gated draft sending and the   *)
(* proposal executor of comms-cli.                                         *)
(*                                                                         *)
(* The store is the SQLite database shared by every command: the tables    *)
(* proposals, drafts and audit_log.  Each store operation is one action;   *)
(* execute_approved_proposals is a loop, modelled by ExecStart, one        *)
(* ExecItem per approved proposal, and ExecReturn (or an ExecItem that an   *)
(* exception leaves).                                                      *)
(* A CLI invocation is single-threaded, so while a pass is in its loop no  *)
(* other store operation runs in Spec.                                     *)
(***************************************************************************)
EXTENDS Integers, Sequences, FiniteSets, TLC

\* ------------------------------------------------------------------ bounds
MaxProposals == 2      \* proposal rows ever inserted
MaxClock     == 1      \* last value of the clock now_iso() reads
MaxDispatch  == 2      \* no pass starts once a proposal was dispatched this often

\* ---------------------------------------------------------------- values
NoTime == -1           \* SQL NULL in a timestamp column
NoText == "<null>"     \* SQL NULL / Python None in a text column

\* proposal ids: uuid4 strings, here two-character words
ProposalIds == {<<"a", "a">>, <<"a", "b">>, <<"b", "a">>}

\* what a caller may type as proposal id: a full id, a prefix of one, or a
\* word that is neither (with capitals, or the characters % and _)
IdInputs == ProposalIds \cup {<<>>, <<"a">>, <<"b">>, <<"b", "b">>,
                              <<"%", "b">>, <<"A", "B">>}

VALID_THREAD_ACTIONS == {"archive", "delete", "flag", "unflag", "unarchive", "undelete"}
VALID_DRAFT_ACTIONS  == {"approve", "send", "delete"}
VALID_SIGNAL_ACTIONS == {"mark_read", "ignore"}

\* The arguments create_proposal is called with: entity_type, entity_id,
\* proposed_action, whether an email/account was given, and skip_validation
\* (triage passes skip_validation=True with the action string the LLM gave).
CreateInputs ==
    { [entity_type |-> "thread", entity_id |-> <<"t", "1">>, proposed_action |-> "archive",
       email |-> TRUE, skip_validation |-> FALSE],
      [entity_type |-> "signal_message", entity_id |-> <<"m", "1">>, proposed_action |-> "mark_read",
       email |-> FALSE, skip_validation |-> FALSE],
      [entity_type |-> "draft", entity_id |-> <<"d", "1">>, proposed_action |-> "send",
       email |-> FALSE, skip_validation |-> FALSE],
      [entity_type |-> "thread", entity_id |-> <<"t", "2">>, proposed_action |-> "snooze",
       email |-> FALSE, skip_validation |-> TRUE],
      [entity_type |-> "thread", entity_id |-> <<"t", "2">>, proposed_action |-> "snooze",
       email |-> FALSE, skip_validation |-> FALSE],
      [entity_type |-> "contact", entity_id |-> <<"c", "1">>, proposed_action |-> "archive",
       email |-> FALSE, skip_validation |-> FALSE] }

\* correction strings reject_proposal is called with (None, the empty
\* string or an action)
Corrections == {NoText, "", "delete"}

\* What the collaborators do when the executor dispatches one proposal:
\*   ok                   the account resolves and the provider call returns True
\*   no_account           select_email_account finds no account
\*   unsupported_provider the account's provider is neither gmail nor outlook
\*   returns_false        the provider call returns False
\*   raises_ValueError    the provider call raises ValueError
\*   raises_other         the provider call raises an exception that is not a
\*                        ValueError (an HTTP/transport error, a token refresh error)
EnvOutcomes == {"ok", "no_account", "unsupported_provider", "returns_false",
                "raises_ValueError", "raises_other"}

VARIABLES
    proposals,   \* table proposals: id -> row
    audit,       \* table audit_log: sequence of entries, oldest first
    now,         \* the clock read by now_iso() / datetime.now()
    exec,        \* the running execute_approved_proposals call, if any
    dispatched,  \* id -> number of times the executor dispatched the proposal
    applied,     \* id -> number of times its provider action took effect
    ret,         \* what the last completed call returned
    drafts,      \* table drafts: id -> row
    policy,      \* the policy block of the configuration (get_policy())
    sendCalls,   \* draft id -> number of provider send_message calls for it
    gatedSent,   \* drafts send_draft marked sent while require_approval was true
    delivered,   \* draft id -> number of send_message calls that returned True
    procs,       \* the calls in progress in two processes that share the store
    daemon       \* the daemon process and the stop() call that ends it

\* procs and daemon are in both groups: the calls of one process that run
\* from start to end leave the other processes as they are
tableVars == <<drafts, policy, sendCalls, gatedSent, delivered>>
propVars  == <<proposals, exec, dispatched, applied, procs, daemon>>
draftVars == <<drafts, policy, sendCalls, gatedSent, delivered, procs, daemon>>
vars == <<proposals, audit, now, exec, dispatched, applied, ret,
          drafts, policy, sendCalls, gatedSent, delivered, procs, daemon>>

StoredIds == DOMAIN proposals

IsPrefix(p, s) == Len(p) <= Len(s) /\ SubSeq(s, 1, Len(p)) = p

\* ret: the operation, the id of the row it changed (when it changed one),
\* the boolean it returned (ok), whether it left by an exception, and the
\* list it returned
NoRet == [op |-> "none", target |-> <<>>, ok |-> FALSE, raised |-> FALSE, results |-> <<>>]

\* exec: approved is the list get_approved_proposals returned, queue the part
\* of it the loop has not reached, results the list built so far
IdleExec == [pc |-> "idle", approved |-> <<>>, queue |-> <<>>, results |-> <<>>]

\* the two processes that share the store (two CLI invocations)
Procs == {1, 2}

\* procs[p]: where process p is in its call (pc), the call (op), the row it
\* read (target, row), its correction argument, the part of the approved list
\* its loop has not reached (queue), and the calls of p that returned True
\* (done, pairs of id and op)
IdleProc == [pc |-> "idle", op |-> "none", target |-> <<>>, row |-> <<>>,
             correction |-> NoText, queue |-> <<>>, done |-> {}]

\* daemon: where the daemon process is in run() (pc), whether its signal
\* handlers are installed, its `running` flag, whether the PID file exists,
\* the half seconds left of the poll or sleep it is in, whether a
\* termination signal reached it (got); and the stop() call: where it is
\* (stop), the checks it has left (tries) and the half seconds to the next
\* check (wait).  At first no daemon process has been started.
NoDaemon == [pc |-> "none", handlers |-> FALSE, running |-> FALSE, pidfile |-> FALSE,
             left |-> 0, got |-> FALSE, stop |-> "none", tries |-> 0, wait |-> 0]

\* ------------------------------------------------------------ proposals.py

\* _validate_action accepting any action on a thread
_validate_action_anyThreadAction(entity_type, proposed_action) ==
    CASE entity_type = "thread"         -> TRUE
      [] entity_type = "draft"          -> proposed_action \in VALID_DRAFT_ACTIONS
      [] entity_type = "signal_message" -> proposed_action \in VALID_SIGNAL_ACTIONS
      [] OTHER                          -> FALSE

_validate_action(entity_type, proposed_action) ==
    CASE entity_type = "thread"         -> proposed_action \in VALID_THREAD_ACTIONS
      [] entity_type = "draft"          -> proposed_action \in VALID_DRAFT_ACTIONS
      [] entity_type = "signal_message" -> proposed_action \in VALID_SIGNAL_ACTIONS
      [] OTHER                          -> FALSE

\* _validate_entity asks a collaborator whether the entity exists; the answer
\* (exists) is the collaborator's.  An unknown entity_type is never valid.
_validate_entity(entity_type, exists) ==
    /\ entity_type \in {"thread", "draft", "signal_message"}
    /\ exists

\* create_proposal approving at once whatever has a perfect record, however
\* short the record is
InitialStatus_perfectRecord(in) ==
    LET rows == {k \in 1..Len(audit) : audit[k].action = "decision"
                    /\ audit[k].proposed_action = in.proposed_action}
    IN  IF /\ policy.auto_approve.enabled
           /\ rows # {}
           /\ \A k \in rows : audit[k].user_decision = "approved"
        THEN "approved" ELSE "pending"

\* the status create_proposal inserts: the literal 'pending'
InitialStatus(in) == "pending"

NewRow(in) ==
    [entity_type |-> in.entity_type, entity_id |-> in.entity_id,
     proposed_action |-> in.proposed_action, email |-> in.email,
     status |-> InitialStatus(in),
     approved_at |-> NoTime, approved_by |-> NoText,
     rejected_at |-> NoTime, executed_at |-> NoTime, correction |-> NoText]

\* the message create_proposal returns with no id: _validate_action's, else
\* _validate_entity's (each names the entity or the action; the kind is kept)
ValidationError(in, exists) ==
    IF ~_validate_action(in.entity_type, in.proposed_action)
    THEN IF in.entity_type \in {"thread", "draft", "signal_message"}
         THEN "Invalid action" ELSE "Unknown entity_type"
    ELSE IF ~_validate_entity(in.entity_type, exists) THEN "Entity not found"
    ELSE NoText

create_proposal(in, exists, id) ==
    /\ exec.pc = "idle"
    /\ Cardinality(StoredIds) < MaxProposals
    /\ id \notin StoredIds
    /\ IF in.skip_validation
          \/ ( /\ _validate_action(in.entity_type, in.proposed_action)
               /\ _validate_entity(in.entity_type, exists) )
       THEN /\ proposals' = [i \in StoredIds \cup {id} |->
                                IF i = id THEN NewRow(in) ELSE proposals[i]]
            /\ dispatched' = [i \in StoredIds \cup {id} |->
                                IF i = id THEN 0 ELSE dispatched[i]]
            /\ applied' = [i \in StoredIds \cup {id} |->
                                IF i = id THEN 0 ELSE applied[i]]
            /\ ret' = [NoRet EXCEPT !.op = "create_proposal", !.target = id, !.ok = TRUE]
       ELSE /\ UNCHANGED <<proposals, dispatched, applied>>
            /\ ret' = [NoRet EXCEPT !.op = "create_proposal", !.ok = FALSE,
                                    !.results = <<ValidationError(in, exists)>>]
    /\ UNCHANGED <<audit, now, exec, draftVars>>

\* SQLite folds the case of ASCII letters when it compares with LIKE
Fold(c) == IF c = "A" THEN "a" ELSE IF c = "B" THEN "b" ELSE c

\* SQL LIKE: % stands for any run of characters, _ for any one character,
\* any other character for itself in either case
RECURSIVE LikeMatch(_, _)
LikeMatch(pattern, str) ==
    IF pattern = <<>> THEN str = <<>>
    ELSE IF Head(pattern) = "%"
    THEN LikeMatch(Tail(pattern), str)
            \/ (str # <<>> /\ LikeMatch(pattern, Tail(str)))
    ELSE /\ str # <<>>
         /\ (Head(pattern) = "_" \/ Fold(Head(pattern)) = Fold(Head(str)))
         /\ LikeMatch(Tail(pattern), Tail(str))

\* SELECT id FROM proposals WHERE id LIKE '<prefix>%': the id when exactly
\* one row matches, None otherwise.
_resolve_proposal_id(prefix) ==
    LET rows == {i \in StoredIds : LikeMatch(prefix \o <<"%">>, i)}
    IN  IF Cardinality(rows) = 1 THEN CHOOSE i \in rows : TRUE ELSE <<"none">>

FullId(proposal_id) ==
    IF _resolve_proposal_id(proposal_id) # <<"none">>
    THEN _resolve_proposal_id(proposal_id)
    ELSE proposal_id

\* audit.log_decision; of the metadata only the correction is kept, the one
\* part of it that is read back
DecisionEntry(row, user_decision, correction) ==
    [action |-> "decision", entity_type |-> row.entity_type, entity_id |-> row.entity_id,
     proposed_action |-> row.proposed_action, user_decision |-> user_decision,
     correction |-> correction]

\* approve_proposal without the status check
CanApprove_anyStatus(full_id) == full_id \in StoredIds

\* approve_proposal's guard: the row exists and its status is pending
CanApprove(full_id) ==
    /\ full_id \in StoredIds
    /\ proposals[full_id].status = "pending"

ApprovedRow(row) ==
    [row EXCEPT !.status = "approved", !.approved_at = now, !.approved_by = "user"]

\* an approval that is not logged
ApprovalAudit_none(row) == audit

\* the audit log after audit.log_decision(..., user_decision="approved", ...)
ApprovalAudit(row) == Append(audit, DecisionEntry(row, "approved", NoText))

approve_proposal(proposal_id) ==
    LET full_id == FullId(proposal_id) IN
    /\ exec.pc = "idle"
    /\ IF CanApprove(full_id)
       THEN /\ proposals' = [proposals EXCEPT ![full_id] = ApprovedRow(@)]
            /\ audit' = ApprovalAudit(proposals[full_id])
            /\ ret' = [NoRet EXCEPT !.op = "approve_proposal",
                                    !.target = full_id, !.ok = TRUE]
       ELSE /\ UNCHANGED <<proposals, audit>>
            /\ ret' = [NoRet EXCEPT !.op = "approve_proposal", !.ok = FALSE]
    /\ UNCHANGED <<now, exec, dispatched, applied, draftVars>>

\* reject_proposal logging every rejection as a plain one
DecisionType_alwaysRejected(correction) == "rejected"

\* decision_type = "rejected_with_correction" if correction else "rejected":
\* None and the empty string are false
DecisionType(correction) ==
    IF correction \notin {NoText, ""} THEN "rejected_with_correction" ELSE "rejected"

\* reject_proposal without the status check
CanReject_anyStatus(full_id) == full_id \in StoredIds

\* reject_proposal's guard: the row exists and its status is pending
CanReject(full_id) ==
    /\ full_id \in StoredIds
    /\ proposals[full_id].status = "pending"

RejectedRow(row, correction) ==
    [row EXCEPT !.status = "rejected", !.rejected_at = now, !.correction = correction]

\* a rejection that also files the correction as a new pending proposal
RejectedRows_proposesCorrection(full_id, correction) ==
    LET fresh == CHOOSE i \in ProposalIds : i \notin StoredIds
    IN  IF correction \in {NoText, ""} \/ StoredIds = ProposalIds
        THEN [proposals EXCEPT ![full_id] = RejectedRow(@, correction)]
        ELSE [i \in StoredIds \cup {fresh} |->
                 IF i = full_id THEN RejectedRow(proposals[i], correction)
                 ELSE IF i = fresh
                 THEN [proposals[full_id] EXCEPT !.proposed_action = correction]
                 ELSE proposals[i]]

\* the table after UPDATE proposals SET status = 'rejected', ... WHERE id = ?
RejectedRows(full_id, correction) ==
    [proposals EXCEPT ![full_id] = RejectedRow(@, correction)]

reject_proposal(proposal_id, correction) ==
    LET full_id == FullId(proposal_id) IN
    /\ exec.pc = "idle"
    /\ IF CanReject(full_id)
       THEN /\ proposals' = RejectedRows(full_id, correction)
            /\ audit' = Append(audit,
                   DecisionEntry(proposals[full_id], DecisionType(correction),
                       IF correction \notin {NoText, ""} THEN correction ELSE NoText))
            /\ ret' = [NoRet EXCEPT !.op = "reject_proposal",
                                    !.target = full_id, !.ok = TRUE]
       ELSE /\ UNCHANGED <<proposals, audit>>
            /\ ret' = [NoRet EXCEPT !.op = "reject_proposal", !.ok = FALSE]
    /\ UNCHANGED <<now, exec, dispatched, applied, draftVars>>

ExecuteEntry(row, id) ==
    [action |-> "execute", entity_type |-> row.entity_type, entity_id |-> row.entity_id,
     proposed_action |-> row.proposed_action, user_decision |-> NoText,
     correction |-> NoText]

\* mark_executed whose UPDATE sets the timestamp and forgets the status
ExecutedRow_keepsStatus(row) == [row EXCEPT !.executed_at = now]

\* mark_executed: the UPDATE has no guard on the current status.
ExecutedRow(row) == [row EXCEPT !.status = "executed", !.executed_at = now]

mark_executed_rows(id) ==
    IF id \in StoredIds THEN [proposals EXCEPT ![id] = ExecutedRow(@)] ELSE proposals

\* variant: the execute entry takes the place of the log
mark_executed_audit_overwrites(id) ==
    IF id \in StoredIds THEN <<ExecuteEntry(proposals[id], id)>> ELSE audit

mark_executed_audit(id) ==
    IF id \in StoredIds THEN Append(audit, ExecuteEntry(proposals[id], id)) ELSE audit

MaxLog == 3      \* direct mark_executed calls stop once the audit log is this long

\* mark_executed called on its own: the UPDATE, then the audit entry if the
\* row is there, then True
mark_executed(id) ==
    /\ exec.pc = "idle"
    /\ Len(audit) < MaxLog
    /\ proposals' = mark_executed_rows(id)
    /\ audit' = mark_executed_audit(id)
    /\ ret' = [NoRet EXCEPT !.op = "mark_executed", !.target = id, !.ok = TRUE]
    /\ UNCHANGED <<now, exec, dispatched, applied, draftVars>>

\* approve_proposal and reject_proposal in a process that shares the store
\* with another one.  The store runs each statement on its own: nothing
\* holds the row between the SELECT and the UPDATE of a call, and
\* audit.log_decision runs after the block that holds the two.
\*
\* decide_begin: _resolve_proposal_id, the SELECT and the two early returns
decide_begin(p, op, proposal_id, correction) ==
    LET full_id == FullId(proposal_id) IN
    /\ procs[p].pc = "idle"
    /\ IF (op = "approve_proposal" /\ CanApprove(full_id))
          \/ (op = "reject_proposal" /\ CanReject(full_id))
       THEN /\ procs' = [procs EXCEPT ![p] = [@ EXCEPT !.pc = "update", !.op = op,
                            !.target = full_id, !.row = proposals[full_id],
                            !.correction = correction]]
            /\ UNCHANGED ret
       ELSE /\ ret' = [NoRet EXCEPT !.op = op, !.ok = FALSE]
            /\ UNCHANGED procs
    /\ UNCHANGED <<proposals, audit, now, exec, dispatched, applied, tableVars, daemon>>

\* decide_update: UPDATE proposals SET status = ... WHERE id = ?
decide_update(p) ==
    /\ procs[p].pc = "update"
    /\ proposals' = IF procs[p].op = "approve_proposal"
                    THEN [proposals EXCEPT ![procs[p].target] = ApprovedRow(@)]
                    ELSE RejectedRows(procs[p].target, procs[p].correction)
    /\ procs' = [procs EXCEPT ![p].pc = "log"]
    /\ UNCHANGED <<audit, now, exec, dispatched, applied, ret, tableVars, daemon>>

\* decide_log: audit.log_decision with the row the SELECT read, return True
decide_log(p) ==
    LET c == procs[p].correction IN
    /\ procs[p].pc = "log"
    /\ audit' = IF procs[p].op = "approve_proposal"
                THEN ApprovalAudit(procs[p].row)
                ELSE Append(audit, DecisionEntry(procs[p].row, DecisionType(c),
                                IF c \notin {NoText, ""} THEN c ELSE NoText))
    /\ ret' = [NoRet EXCEPT !.op = procs[p].op, !.target = procs[p].target, !.ok = TRUE]
    /\ procs' = [procs EXCEPT ![p] = [IdleProc EXCEPT
                     !.done = procs[p].done \cup {<<procs[p].target, procs[p].op>>}]]
    /\ UNCHANGED <<proposals, now, exec, dispatched, applied, tableVars, daemon>>

\* ------------------------------------------------------------- services.py

\* get_approved_proposals selecting the pending rows too
get_approved_proposals_alsoPending ==
    LET ids == {i \in StoredIds : proposals[i].status \in {"approved", "pending"}}
        n   == Cardinality(ids)
    IN  {q \in [1..n -> ids] :
            /\ \A j, k \in 1..n : j # k => q[j] # q[k]
            /\ \A j, k \in 1..n :
                  j < k => proposals[q[j]].approved_at <= proposals[q[k]].approved_at}

\* get_approved_proposals without the ORDER BY: the approved rows in any order
get_approved_proposals_unordered ==
    LET ids == {i \in StoredIds : proposals[i].status = "approved"}
        n   == Cardinality(ids)
    IN  {q \in [1..n -> ids] : \A j, k \in 1..n : j # k => q[j] # q[k]}

\* SELECT * FROM proposals WHERE status = 'approved' ORDER BY approved_at ASC:
\* every approved row once, by ascending approved_at; rows with equal
\* approved_at come in any order.
get_approved_proposals ==
    LET ids == {i \in StoredIds : proposals[i].status = "approved"}
        n   == Cardinality(ids)
    IN  {q \in [1..n -> ids] :
            /\ \A j, k \in 1..n : j # k => q[j] # q[k]
            /\ \A j, k \in 1..n :
                  j < k => proposals[q[j]].approved_at <= proposals[q[k]].approved_at}

\* the collaborator outcomes that can occur for an entity type
EnvFor(entity_type) ==
    CASE entity_type = "thread"         -> EnvOutcomes
      [] entity_type = "signal_message" -> {"ok", "raises_ValueError", "raises_other"}
      [] OTHER                          -> {"ok"}

Raise(error)  == [kind |-> "ValueError", error |-> error, effect |-> FALSE]
Propagate     == [kind |-> "propagate", error |-> "exception", effect |-> FALSE]
Done          == [kind |-> "success", error |-> NoText, effect |-> TRUE]

\* thread_action: resolve the account, pick the adapter, look the action up,
\* call it; a False return becomes ValueError.
thread_action(action, env) ==
    IF env = "no_account" THEN Raise("No email account found")
    ELSE IF env = "unsupported_provider" THEN Raise("Provider not supported")
    ELSE IF action \notin VALID_THREAD_ACTIONS THEN Raise("Unknown action")
    ELSE IF env = "returns_false" THEN Raise("Failed to act on thread")
    ELSE IF env = "raises_ValueError" THEN Raise("provider error")
    ELSE IF env = "raises_other" THEN Propagate
    ELSE Done

\* _execute_signal_action: the value signal.mark_read returns is not looked at.
_execute_signal_action(action, env) ==
    IF action \in {"mark_read", "ignore"}
    THEN IF env = "raises_ValueError" THEN Raise("provider error")
         ELSE IF env = "raises_other" THEN Propagate
         ELSE Done
    ELSE Raise("Unknown signal action")

\* variant: an entity type the executor has no branch for is a fatal error
Dispatch_unknownTypeFatal(row, env) ==
    CASE row.entity_type = "thread" ->
            IF ~row.email /\ env = "no_account"
            THEN Raise("No email account found")
            ELSE thread_action(row.proposed_action, env)
      [] row.entity_type = "signal_message" ->
            _execute_signal_action(row.proposed_action, env)
      [] OTHER -> Propagate

\* the body of the try block of execute_approved_proposals, up to mark_executed
Dispatch(row, env) ==
    CASE row.entity_type = "thread" ->
            IF ~row.email /\ env = "no_account"
            THEN Raise("No email account found")
            ELSE thread_action(row.proposed_action, env)
      [] row.entity_type = "signal_message" ->
            _execute_signal_action(row.proposed_action, env)
      [] OTHER -> Raise("Unknown entity type")

\* does `except ValueError` handle the outcome?  Anything else leaves the
\* function as an exception.
Caught(outcome) == outcome.kind = "ValueError"

ProposalExecution(id, row, success, error) ==
    [proposal_id |-> id, action |-> row.proposed_action,
     entity_type |-> row.entity_type, entity_id |-> row.entity_id,
     success |-> success, error |-> error]

ExecStart ==
    /\ exec.pc = "idle"
    /\ \A i \in StoredIds : dispatched[i] < MaxDispatch
    /\ \E q \in get_approved_proposals :
          exec' = [pc |-> "loop", approved |-> q, queue |-> q, results |-> <<>>]
    /\ UNCHANGED <<proposals, audit, now, dispatched, applied, ret, draftVars>>

ExecItem(env) ==
    /\ exec.pc = "loop"
    /\ exec.queue # <<>>
    /\ LET id      == Head(exec.queue)
           row     == proposals[id]
           outcome == Dispatch(row, env)
       IN  /\ env \in EnvFor(row.entity_type)
           /\ dispatched' = [dispatched EXCEPT ![id] = @ + 1]
           /\ applied' = [applied EXCEPT ![id] = IF outcome.effect THEN @ + 1 ELSE @]
           /\ IF outcome.kind = "success"
              THEN /\ proposals' = mark_executed_rows(id)
                   /\ audit' = mark_executed_audit(id)
                   /\ exec' = [exec EXCEPT !.queue = Tail(@),
                          !.results = Append(@, ProposalExecution(id, row, TRUE, NoText))]
                   /\ UNCHANGED ret
              ELSE IF Caught(outcome)
              THEN /\ exec' = [exec EXCEPT !.queue = Tail(@),
                          !.results = Append(@, ProposalExecution(id, row, FALSE, outcome.error))]
                   /\ UNCHANGED <<proposals, audit, ret>>
              ELSE /\ exec' = IdleExec
                   /\ ret' = [NoRet EXCEPT !.op = "execute_approved_proposals",
                                           !.raised = TRUE]
                   /\ UNCHANGED <<proposals, audit>>
    /\ UNCHANGED <<now, draftVars>>

ExecReturn ==
    /\ exec.pc = "loop"
    /\ exec.queue = <<>>
    /\ exec' = IdleExec
    /\ ret' = [NoRet EXCEPT !.op = "execute_approved_proposals", !.ok = TRUE,
                            !.results = exec.results]
    /\ UNCHANGED <<proposals, audit, now, dispatched, applied, draftVars>>

\* execute_approved_proposals in a process that shares the store with
\* another one: the SELECT of get_approved_proposals, then one step for each
\* proposal of the list it returned (the provider call and mark_executed),
\* then the return.  procs[p].done holds the proposals the running pass has
\* dispatched.
pass_begin(p) ==
    /\ procs[p].pc = "idle"
    /\ \A i \in StoredIds : dispatched[i] < MaxDispatch
    /\ \E q \in get_approved_proposals :
          procs' = [procs EXCEPT ![p] = [IdleProc EXCEPT
                       !.pc = "loop", !.op = "execute_approved_proposals", !.queue = q]]
    /\ UNCHANGED <<proposals, audit, now, exec, dispatched, applied, ret, tableVars, daemon>>

pass_item(p, env) ==
    /\ procs[p].pc = "loop"
    /\ procs[p].queue # <<>>
    /\ LET id      == Head(procs[p].queue)
           row     == proposals[id]
           outcome == Dispatch(row, env)
       IN  /\ env \in EnvFor(row.entity_type)
           /\ dispatched' = [dispatched EXCEPT ![id] = @ + 1]
           /\ applied' = [applied EXCEPT ![id] = IF outcome.effect THEN @ + 1 ELSE @]
           /\ IF outcome.kind = "success"
              THEN /\ proposals' = mark_executed_rows(id)
                   /\ audit' = mark_executed_audit(id)
              ELSE UNCHANGED <<proposals, audit>>
           /\ IF outcome.kind = "success" \/ Caught(outcome)
              THEN /\ procs' = [procs EXCEPT ![p] = [@ EXCEPT !.queue = Tail(@),
                                   !.done = @ \cup {<<id, "dispatch">>}]]
                   /\ UNCHANGED ret
              ELSE /\ procs' = [procs EXCEPT ![p] = IdleProc]
                   /\ ret' = [NoRet EXCEPT !.op = "execute_approved_proposals",
                                           !.raised = TRUE]
    /\ UNCHANGED <<now, exec, tableVars, daemon>>

pass_end(p) ==
    /\ procs[p].pc = "loop"
    /\ procs[p].queue = <<>>
    /\ procs' = [procs EXCEPT ![p] = IdleProc]
    /\ ret' = [NoRet EXCEPT !.op = "execute_approved_proposals", !.ok = TRUE]
    /\ UNCHANGED <<proposals, audit, now, exec, dispatched, applied, tableVars, daemon>>

\* time passes between and during calls
Tick ==
    /\ now < MaxClock
    /\ now' = now + 1
    /\ UNCHANGED <<audit, ret, propVars, draftVars>>

\* --------------------------------------------------------------- drafts.py

MaxDrafts    == 2      \* draft rows ever inserted
MaxAudit     == 3      \* draft operations stop once the audit log is this long
MaxSendCalls == 1      \* no failing send_message call for a draft once it had this many calls

DraftIds == {<<"a", "a">>, <<"a", "b">>}

Addrs == {"a@x.org", "b@y.org"}

DomainOf(addr) == IF addr = "a@x.org" THEN "x.org" ELSE "y.org"

\* create_draft arguments: the recipient, and whether the source account
\* (from_account_id, from_addr) is given, as compose_email_draft gives it
CreateDraftInputs ==
    { [to_addr |-> "a@x.org", from_set |-> TRUE],
      [to_addr |-> "b@y.org", from_set |-> TRUE],
      [to_addr |-> "b@y.org", from_set |-> FALSE] }

\* get_policy()'s default auto_approve block; threshold in percent
DefaultAutoApprove ==
    [enabled |-> FALSE, threshold |-> 95, min_samples |-> 10, actions |-> {}]

\* policy blocks set_policy is called with
Policies ==
    [require_approval : BOOLEAN,
     allowed_recipients : {{}, {"a@x.org"}},
     allowed_domains : {{}, {"y.org"}},
     max_daily_sends : {1},
     auto_approve : {DefaultAutoApprove}]

DraftAudit(action, draft_id) ==
    [action |-> action, entity_type |-> "draft", entity_id |-> draft_id,
     proposed_action |-> NoText, user_decision |-> NoText, correction |-> NoText]

NewDraft(in) ==
    [to_addr |-> in.to_addr, from_set |-> in.from_set,
     approved_at |-> NoTime, sent_at |-> NoTime]

create_draft(in, id) ==
    /\ Cardinality(DOMAIN drafts) < MaxDrafts
    /\ Len(audit) < MaxAudit
    /\ id \notin DOMAIN drafts
    /\ drafts' = [i \in DOMAIN drafts \cup {id} |-> IF i = id THEN NewDraft(in) ELSE drafts[i]]
    /\ sendCalls' = [i \in DOMAIN drafts \cup {id} |-> IF i = id THEN 0 ELSE sendCalls[i]]
    /\ delivered' = [i \in DOMAIN drafts \cup {id} |-> IF i = id THEN 0 ELSE delivered[i]]
    /\ audit' = Append(audit, DraftAudit("create", id))
    /\ ret' = [NoRet EXCEPT !.op = "create_draft", !.target = id, !.ok = TRUE]
    /\ UNCHANGED <<now, policy, gatedSent, propVars>>

\* UPDATE drafts SET approved_at = <now> WHERE id = ?
ApprovedDraft(row) == [row EXCEPT !.approved_at = now]

approve_draft(draft_id) ==
    /\ Len(audit) < MaxAudit
    /\ drafts' = [i \in DOMAIN drafts |->
                     IF i = draft_id THEN ApprovedDraft(drafts[i]) ELSE drafts[i]]
    /\ audit' = Append(audit, DraftAudit("approve", draft_id))
    /\ ret' = [NoRet EXCEPT !.op = "approve_draft", !.target = draft_id, !.ok = TRUE]
    /\ UNCHANGED <<now, policy, sendCalls, gatedSent, delivered, propVars>>

\* mark_sent whose UPDATE also resets approved_at
SentDraft_clearsApproval(row) == [row EXCEPT !.sent_at = now, !.approved_at = NoTime]

\* UPDATE drafts SET sent_at = <now> WHERE id = ?
SentDraft(row) == [row EXCEPT !.sent_at = now]

mark_sent_rows(draft_id) ==
    [i \in DOMAIN drafts |-> IF i = draft_id THEN SentDraft(drafts[i]) ELSE drafts[i]]

mark_sent(draft_id) ==
    /\ Len(audit) < MaxAudit
    /\ drafts' = mark_sent_rows(draft_id)
    /\ audit' = Append(audit, DraftAudit("send", draft_id))
    /\ ret' = [NoRet EXCEPT !.op = "mark_sent", !.target = draft_id, !.ok = TRUE]
    /\ UNCHANGED <<now, policy, sendCalls, gatedSent, delivered, propVars>>

\* --------------------------------------------------------------- policy.py

ErrApproval  == "draft requires approval before sending"
ErrRecipient(addr) == "recipient '" \o addr \o "' not in allowlist"
ErrQuota     == "daily send limit reached"

\* check_recipient_allowed: the recipient is one of allowed_recipients when
\* that list is not empty, and its domain one of allowed_domains when that
\* list is not empty
check_recipient_allowed(addr) ==
    /\ policy.allowed_recipients # {} => addr \in policy.allowed_recipients
    /\ policy.allowed_domains # {} => DomainOf(addr) \in policy.allowed_domains

\* drafts whose sent_at lies in the current day (one clock value is one day)
SentToday == {i \in DOMAIN drafts : drafts[i].sent_at = now}

Unapproved(draft_id) ==
    draft_id \notin DOMAIN drafts \/ drafts[draft_id].approved_at = NoTime

\* validate_send returning at the first failed check
validate_send_shortCircuit(draft_id, to_addr) ==
    LET errors ==
            IF policy.require_approval /\ Unapproved(draft_id) THEN <<ErrApproval>>
            ELSE IF ~check_recipient_allowed(to_addr) THEN <<ErrRecipient(to_addr)>>
            ELSE IF Cardinality(SentToday) >= policy.max_daily_sends THEN <<ErrQuota>>
            ELSE <<>>
    IN  [allowed |-> errors = <<>>, errors |-> errors]

\* validate_send whose quota check lets one send past the limit
validate_send_quotaOffByOne(draft_id, to_addr) ==
    LET errors ==
            (IF policy.require_approval /\ Unapproved(draft_id)
             THEN <<ErrApproval>> ELSE <<>>)
         \o (IF ~check_recipient_allowed(to_addr) THEN <<ErrRecipient(to_addr)>> ELSE <<>>)
         \o (IF Cardinality(SentToday) > policy.max_daily_sends
             THEN <<ErrQuota>> ELSE <<>>)
    IN  [allowed |-> errors = <<>>, errors |-> errors]

\* validate_send: the three checks in order, every error collected
validate_send(draft_id, to_addr) ==
    LET errors ==
            (IF policy.require_approval /\ Unapproved(draft_id)
             THEN <<ErrApproval>> ELSE <<>>)
         \o (IF ~check_recipient_allowed(to_addr) THEN <<ErrRecipient(to_addr)>> ELSE <<>>)
         \o (IF Cardinality(SentToday) >= policy.max_daily_sends
             THEN <<ErrQuota>> ELSE <<>>)
    IN  [allowed |-> errors = <<>>, errors |-> errors]

\* ------------------------------------------------- services.py: send_draft

SendEnv == {"ok", "no_account", "unsupported_provider", "send_false"}

\* send_draft that does not look at what validate_send returned
SendAllowed_unchecked(draft_id) == TRUE

\* send_draft that asks check_recipient_allowed instead of validate_send
SendAllowed_recipientOnly(draft_id) == check_recipient_allowed(drafts[draft_id].to_addr)

\* lines 98-100: the policy decides whether send_draft goes on
SendAllowed(draft_id) == validate_send(draft_id, drafts[draft_id].to_addr).allowed

\* send_draft that does not look at sent_at
AlreadySent_ignored(draft_id) == FALSE

\* lines 93-94: if d.sent_at
AlreadySent(draft_id) == drafts[draft_id].sent_at # NoTime

\* where send_draft ends: the ValueError it raises, or "sent"
SendDraftOutcome(draft_id, env) ==
    IF draft_id \notin DOMAIN drafts THEN "Draft not found"
    ELSE IF AlreadySent(draft_id) THEN "Draft already sent"
    ELSE IF ~drafts[draft_id].from_set THEN "Draft missing source account info"
    ELSE IF ~SendAllowed(draft_id) THEN "policy"
    ELSE IF env = "no_account" THEN "Account not found"
    ELSE IF env = "unsupported_provider" THEN "Provider not supported"
    ELSE IF env = "send_false" THEN "Failed to send"
    ELSE "sent"

\* the outcomes in which adapter.send_message was called
ProviderCalled(outcome) == outcome \in {"Failed to send", "sent"}

send_draft(draft_id, env) ==
    LET outcome == SendDraftOutcome(draft_id, env) IN
    /\ outcome = "sent" => Len(audit) < MaxAudit
    /\ outcome = "Failed to send" => sendCalls[draft_id] < MaxSendCalls
    /\ sendCalls' = IF ProviderCalled(outcome)
                    THEN [sendCalls EXCEPT ![draft_id] = @ + 1] ELSE sendCalls
    /\ delivered' = IF outcome = "sent"
                    THEN [delivered EXCEPT ![draft_id] = @ + 1] ELSE delivered
    /\ IF outcome = "sent"
       THEN /\ drafts' = mark_sent_rows(draft_id)
            /\ audit' = Append(audit, DraftAudit("send", draft_id))
            /\ gatedSent' = IF policy.require_approval
                            THEN gatedSent \cup {draft_id} ELSE gatedSent
            /\ ret' = [NoRet EXCEPT !.op = "send_draft", !.target = draft_id, !.ok = TRUE]
       ELSE /\ UNCHANGED <<drafts, audit, gatedSent>>
            /\ ret' = [NoRet EXCEPT !.op = "send_draft", !.raised = TRUE,
                          !.results = IF outcome = "policy"
                                      THEN validate_send(draft_id,
                                               drafts[draft_id].to_addr).errors
                                      ELSE <<outcome>>]
    /\ UNCHANGED <<now, policy, propVars>>

\* ------------------------------------------------------ cli/drafts.py

\* what a caller may type as draft id: a full id or a prefix
DraftIdInputs == DraftIds \cup {<<"a">>, <<"b">>}

NoDraft == <<"none">>

\* drafts.resolve_draft_id: the values it can return for a prefix.  The id
\* when exactly one stored draft's id starts with the prefix, None when none
\* does; what it returns for a prefix of several ids is not fixed by the
\* test, so either None or one of them.
resolve_draft_id(prefix) ==
    LET rows == {i \in DOMAIN drafts : IsPrefix(prefix, i)}
    IN  IF Cardinality(rows) = 1 THEN rows
        ELSE IF rows = {} THEN {NoDraft}
        ELSE rows \cup {NoDraft}

\* a fallback to the stored drafts when the input does not resolve
DraftFullIds_anyStored(draft_id) ==
    IF resolve_draft_id(draft_id) = {NoDraft} /\ DOMAIN drafts # {}
    THEN DOMAIN drafts
    ELSE {IF r = NoDraft THEN draft_id ELSE r : r \in resolve_draft_id(draft_id)}

\* full_id = drafts_module.resolve_draft_id(draft_id) or draft_id
DraftFullIds(draft_id) ==
    {IF r = NoDraft THEN draft_id ELSE r : r \in resolve_draft_id(draft_id)}

\* the approve command without the recipient check
ApprovalAllowed_unchecked(addr) == TRUE

\* lines 93-96: the command asks check_recipient_allowed before approving
ApprovalAllowed(addr) == check_recipient_allowed(addr)

\* the approve command (cli approve_draft)
approve_draft_command(draft_id) ==
    \E full_id \in DraftFullIds(draft_id) :
        /\ IF full_id \notin DOMAIN drafts
           THEN /\ ret' = [NoRet EXCEPT !.op = "approve_draft_command", !.raised = TRUE,
                                        !.results = <<"Draft not found">>]
                /\ UNCHANGED <<drafts, audit>>
           ELSE IF drafts[full_id].approved_at # NoTime
           THEN /\ ret' = [NoRet EXCEPT !.op = "approve_draft_command",
                                        !.results = <<"Draft already approved">>]
                /\ UNCHANGED <<drafts, audit>>
           ELSE IF ~ApprovalAllowed(drafts[full_id].to_addr)
           THEN /\ ret' = [NoRet EXCEPT !.op = "approve_draft_command", !.raised = TRUE,
                                        !.results = <<ErrRecipient(drafts[full_id].to_addr)>>]
                /\ UNCHANGED <<drafts, audit>>
           ELSE /\ Len(audit) < MaxAudit
                /\ drafts' = [drafts EXCEPT ![full_id] = ApprovedDraft(@)]
                /\ audit' = Append(audit, DraftAudit("approve", full_id))
                /\ ret' = [NoRet EXCEPT !.op = "approve_draft_command",
                                        !.target = full_id, !.ok = TRUE]
        /\ UNCHANGED <<now, policy, sendCalls, gatedSent, delivered, propVars>>

\* the send command: resolve, look the draft up, then services.send_draft
send_command(draft_id, env) ==
    \E full_id \in DraftFullIds(draft_id) :
        IF full_id \notin DOMAIN drafts
        THEN /\ ret' = [NoRet EXCEPT !.op = "send_command", !.raised = TRUE,
                                     !.results = <<"Draft not found">>]
             /\ UNCHANGED <<drafts, audit, now, policy, sendCalls, gatedSent, delivered, propVars>>
        ELSE send_draft(full_id, env)

\* config.set_policy
set_policy(p) ==
    /\ policy' = p
    /\ UNCHANGED <<audit, now, ret, drafts, sendCalls, gatedSent, delivered, propVars>>

\* get_policy()'s default when the configuration has no policy block
DefaultPolicy ==
    [require_approval |-> TRUE, allowed_recipients |-> {}, allowed_domains |-> {},
     max_daily_sends |-> 50, auto_approve |-> DefaultAutoApprove]

\* ------------------------------------------- cli/system.py and learning.py

NoOption == -1         \* a command option that was not given

\* the options of the auto-approve command: --enable/--disable or neither,
\* --min-samples or not, and the action list (an empty list changes
\* nothing); --threshold is not given
AutoApproveInputs ==
    [enable : {"unset", "on", "off"}, min_samples : {NoOption, 1},
     action : {{}, {"mark_read"}}]

\* the auto-approve command: read the policy, overwrite the given options,
\* write the policy back
auto_approve_command(in) ==
    LET auto == policy.auto_approve
        new  == [enabled     |-> IF in.enable = "unset" THEN auto.enabled
                                 ELSE in.enable = "on",
                 threshold   |-> auto.threshold,
                 min_samples |-> IF in.min_samples = NoOption THEN auto.min_samples
                                 ELSE in.min_samples,
                 actions     |-> IF in.action # {} THEN in.action ELSE auto.actions]
    IN  /\ exec.pc = "idle"
        /\ policy' = [policy EXCEPT !.auto_approve = new]
        /\ UNCHANGED <<audit, now, ret, propVars, drafts, sendCalls, gatedSent, delivered>>

\* learning.get_decision_stats: the decision entries of the audit log that
\* name the action, and those of them with user_decision = 'approved'
DecisionRows(action) ==
    {k \in 1..Len(audit) :
        audit[k].action = "decision" /\ audit[k].proposed_action = action}

\* variant: an entry with a correction is counted as a rejection as well
ActionStats_correctedAsRejected(action) ==
    [total    |-> Cardinality(DecisionRows(action)),
     approved |-> Cardinality({k \in DecisionRows(action) :
                                  audit[k].user_decision = "approved"}),
     rejected |-> Cardinality({k \in DecisionRows(action) :
                                  audit[k].user_decision
                                     \in {"rejected", "rejected_with_correction"}}),
     corrected |-> Cardinality({k \in DecisionRows(action) :
                                  audit[k].user_decision = "rejected_with_correction"})]

ActionStats(action) ==
    [total    |-> Cardinality(DecisionRows(action)),
     approved |-> Cardinality({k \in DecisionRows(action) :
                                  audit[k].user_decision = "approved"}),
     rejected |-> Cardinality({k \in DecisionRows(action) :
                                  audit[k].user_decision = "rejected"}),
     corrected |-> Cardinality({k \in DecisionRows(action) :
                                  audit[k].user_decision = "rejected_with_correction"})]

\* accuracy = approved / total if total > 0 else 0.0, as the fraction
\* <<numerator, denominator>>
Accuracy(action) ==
    IF ActionStats(action).total > 0
    THEN <<ActionStats(action).approved, ActionStats(action).total>>
    ELSE <<0, 1>>

\* the keys of the dict get_decision_stats returns
StatsActions ==
    {audit[k].proposed_action : k \in {j \in 1..Len(audit) : audit[j].action = "decision"}}

\* learning.suggest_auto_approve: the actions with at least min_samples
\* decisions and accuracy >= threshold (the threshold in percent)
suggest_auto_approve(threshold, min_samples) ==
    {a \in StatsActions :
        /\ ActionStats(a).total >= min_samples
        /\ Accuracy(a)[1] * 100 >= threshold * Accuracy(a)[2]}

\* --------------------------------------------------------------- triage.py

MaxTriaged == 2      \* proposal rows the triage runs insert

\* scores are written in percent: 0.6 is 60, 0.7 is 70
URGENCY_LIMIT == 60
DefaultConfidence == 50
NaN == 999

\* `a < b` on floats: false as soon as one side is NaN
FloatLt(a, b) == a # NaN /\ b # NaN /\ a < b

NoMatch == [hit |-> FALSE, action |-> "none", confidence |-> 0]
ArchiveMatch == [hit |-> TRUE, action |-> "archive", confidence |-> 90]

\* Inbox items with what the collaborators answer for them: match is what
\* should_skip_triage returns for the sender and preview, urgency the score
\* detect_urgency gives the preview.
InboxItems ==
    [item_id : {<<"e", "1">>}, source : {"email"}, match : {NoMatch}, urgency : {0, 60}]
      \cup [item_id : {<<"e", "2">>}, source : {"email"}, match : {ArchiveMatch},
            urgency : {0, 60}]
      \cup [item_id : {<<"s", "1">>}, source : {"signal"}, match : {NoMatch}, urgency : {60}]

Inboxes ==
    {<<>>} \cup {<<i>> : i \in InboxItems}
      \cup {q \in {<<i, j>> : i, j \in {x \in InboxItems : x.source = "email"}} :
               q[1].item_id # q[2].item_id}
      \cup {<<i, j>> : i \in {x \in InboxItems : x.item_id = <<"e", "1">>},
                       j \in {x \in InboxItems : x.item_id = <<"s", "1">>}}

\* the value of the "confidence" key of one output object
Num(v) == [t |-> "number", v |-> v]
ConfidenceValues ==
    {Num(69), Num(70), [t |-> "numeric_string", v |-> 90], [t |-> "nan", v |-> 0],
     [t |-> "text", v |-> 0], [t |-> "null", v |-> 0]}

\* float(x): numbers and numeric strings convert, NaN stays NaN, any other
\* string raises ValueError and null raises TypeError
float(x) ==
    CASE x.t \in {"number", "numeric_string"} -> [raised |-> FALSE, v |-> x.v]
      [] x.t = "nan"                           -> [raised |-> FALSE, v |-> NaN]
      [] OTHER                                 -> [raised |-> TRUE, v |-> 0]

\* one element of the JSON array: an object with the keys in `has`, or
\* something that is not an object
AllKeys == {"id", "action", "reasoning", "confidence"}
Obj(has, id, action, confidence) ==
    [kind |-> "object", has |-> has, id |-> id, action |-> action,
     reasoning |-> <<"why">>, confidence |-> confidence]
NotAnObject == [kind |-> "number", has |-> {}, id |-> <<>>, action |-> "none",
                reasoning |-> <<>>, confidence |-> Num(0)]

E1 == <<"e", "1">>
S1 == <<"s", "1">>

\* what json.loads makes of the text: invalid (JSONDecodeError; the empty
\* text is invalid too), or a value of some kind with the elements a for loop
\* over it yields
Json(kind, elems) == [kind |-> kind, elems |-> elems]
JsonValues ==
    { Json("invalid", <<>>), Json("null", <<>>), Json("object", <<NotAnObject>>),
      Json("object", <<>>), Json("array", <<>>), Json("array", <<NotAnObject>>),
      Json("array", <<Obj(AllKeys, E1, "archive", Num(70))>>),
      Json("array", <<Obj(AllKeys, E1, "archive", Num(69))>>),
      Json("array", <<Obj(AllKeys, E1, "delete", Num(70))>>),
      Json("array", <<Obj(AllKeys, E1, "flag", [t |-> "numeric_string", v |-> 90])>>),
      Json("array", <<Obj(AllKeys, E1, "delete", [t |-> "nan", v |-> 0])>>),
      Json("array", <<Obj(AllKeys, E1, "ignore", Num(70))>>),
      Json("array", <<Obj(AllKeys, E1, "snooze", Num(70))>>),
      Json("array", <<Obj(AllKeys \ {"action"}, E1, "none", Num(70))>>),
      Json("array", <<Obj(AllKeys \ {"confidence"}, E1, "delete", Num(0))>>),
      Json("array", <<Obj(AllKeys \ {"id"}, <<>>, "delete", Num(70))>>),
      Json("array", <<Obj(AllKeys, E1, "archive", [t |-> "text", v |-> 0])>>),
      Json("array", <<Obj(AllKeys, E1, "archive", [t |-> "null", v |-> 0])>>),
      Json("array", <<Obj(AllKeys, <<"z", "9">>, "archive", [t |-> "text", v |-> 0])>>),
      Json("array", <<Obj(AllKeys, S1, "mark_read", Num(70))>>),
      Json("array", <<Obj(AllKeys, E1, "archive", Num(70)),
                      Obj(AllKeys, S1, "mark_read", Num(70))>>),
      Json("array", <<Obj(AllKeys, E1, "delete", Num(70)), NotAnObject>>) }

\* the subprocess: how it ended, and its standard output as the text between
\* an optional opening and an optional closing code fence line
LlmRuns ==
    [exit : {"zero"}, fence_open : {FALSE}, fence_close : {FALSE}, body : JsonValues]
      \cup [exit : {"zero"}, fence_open : BOOLEAN, fence_close : BOOLEAN,
            body : {Json("array", <<Obj(AllKeys, E1, "archive", Num(70))>>)}]
      \cup [exit : {"nonzero", "timeout"}, fence_open : {FALSE}, fence_close : {FALSE},
            body : {Json("invalid", <<>>)}]

TriageInputs == [inbox : Inboxes, snoozed : {{}, {E1}}]

MinConfidences == {70, 90}

TriageProposal(item, action, reasoning, confidence) ==
    [item |-> item, action |-> action, reasoning |-> reasoning, confidence |-> confidence]

\* item.item_id[:8]
ItemKey(item_id) == SubSeq(item_id, 1, IF Len(item_id) < 8 THEN Len(item_id) ELSE 8)

\* lines 79-82: with an opening fence the first line goes, and the last one
\* if it is a closing fence; a closing fence alone stays in the text
StripFence(out) ==
    IF out.fence_open THEN out.body
    ELSE IF out.fence_close THEN Json("invalid", <<>>)
    ELSE out.body

\* p.get(key, default)
Get(p, key, default) == IF key \in p.has THEN p[key] ELSE default

\* item_map: the last item with each key
item_map(items) ==
    [k \in {ItemKey(items[i].item_id) : i \in DOMAIN items} |->
        items[CHOOSE i \in DOMAIN items :
                 /\ ItemKey(items[i].item_id) = k
                 /\ \A j \in DOMAIN items : ItemKey(items[j].item_id) = k => j <= i]]

\* the part of the loop body of _parse_response that can raise: p.get on
\* something that is not a dict, and float() of the confidence
ElementRaises(p, items) ==
    \/ p.kind # "object"
    \/ /\ Get(p, "id", <<>>) \in DOMAIN item_map(items)
       /\ float(Get(p, "confidence", Num(DefaultConfidence))).raised

ElementKept(p, items) == Get(p, "id", <<>>) \in DOMAIN item_map(items)

ParsedProposal(p, items) ==
    TriageProposal(item_map(items)[Get(p, "id", <<>>)],
                   Get(p, "action", "ignore"),
                   Get(p, "reasoning", <<>>),
                   float(Get(p, "confidence", Num(DefaultConfidence))).v)

RECURSIVE ParseLoop(_, _)
ParseLoop(elems, items) ==
    IF elems = <<>> THEN <<>>
    ELSE IF ElementKept(Head(elems), items)
    THEN <<ParsedProposal(Head(elems), items)>> \o ParseLoop(Tail(elems), items)
    ELSE ParseLoop(Tail(elems), items)

\* _parse_response: only JSONDecodeError is caught
_parse_response(out, items) ==
    LET data == StripFence(out)
    IN  IF data.kind = "invalid" THEN [raised |-> FALSE, proposals |-> <<>>]
        ELSE IF data.kind \notin {"array", "object", "string"}
        THEN [raised |-> TRUE, proposals |-> <<>>]
        ELSE IF \E i \in DOMAIN data.elems : ElementRaises(data.elems[i], items)
        THEN [raised |-> TRUE, proposals |-> <<>>]
        ELSE [raised |-> FALSE, proposals |-> ParseLoop(data.elems, items)]

PatternMatched(item) == item.source = "email" /\ item.match.hit

\* variant: only an urgency above the limit forces the flag
PatternProposal_aboveLimit(item) ==
    IF item.urgency > URGENCY_LIMIT
    THEN TriageProposal(item, "flag", <<"[auto]", "but">>, item.urgency)
    ELSE TriageProposal(item, item.match.action, <<"[auto]">>, item.match.confidence)

PatternProposal(item) ==
    IF item.urgency >= URGENCY_LIMIT
    THEN TriageProposal(item, "flag", <<"[auto]", "but">>, item.urgency)
    ELSE TriageProposal(item, item.match.action, <<"[auto]">>, item.match.confidence)

RECURSIVE PatternLoop(_)
PatternLoop(items) ==
    IF items = <<>> THEN <<>>
    ELSE IF PatternMatched(Head(items))
    THEN <<PatternProposal(Head(items))>> \o PatternLoop(Tail(items))
    ELSE PatternLoop(Tail(items))

RECURSIVE RemainingLoop(_)
RemainingLoop(items) ==
    IF items = <<>> THEN <<>>
    ELSE IF PatternMatched(Head(items)) THEN RemainingLoop(Tail(items))
    ELSE <<Head(items)>> \o RemainingLoop(Tail(items))

_apply_patterns(items) ==
    [pattern_proposals |-> PatternLoop(items), remaining |-> RemainingLoop(items)]

\* variant: the urgency note is added whatever the action is
Annotated_anyAction(p) ==
    IF p.item.urgency >= URGENCY_LIMIT
    THEN [p EXCEPT !.reasoning = Append(@, "[urgent]")]
    ELSE p

\* lines 194-197
Annotated(p) ==
    IF p.item.urgency >= URGENCY_LIMIT /\ p.action \notin {"flag", "delete"}
    THEN [p EXCEPT !.reasoning = Append(@, "[urgent]")]
    ELSE p

RECURSIVE NotSnoozed(_, _)
NotSnoozed(items, snoozed) ==
    IF items = <<>> THEN <<>>
    ELSE IF Head(items).item_id \in snoozed THEN NotSnoozed(Tail(items), snoozed)
    ELSE <<Head(items)>> \o NotSnoozed(Tail(items), snoozed)

\* triage_inbox up to the subprocess: the inbox is read, snoozed items are
\* dropped and the patterns applied.  With nothing left for the model the
\* call returns; otherwise it waits for the subprocess, holding the pattern
\* proposals (exec.results) and the remaining items (exec.queue).
triage_inbox(in) ==
    /\ exec.pc = "idle"
    /\ LET items == NotSnoozed(in.inbox, in.snoozed)
           pats  == _apply_patterns(items)
       IN  IF in.inbox = <<>> \/ items = <<>>
           THEN /\ ret' = [NoRet EXCEPT !.op = "triage_inbox", !.ok = TRUE]
                /\ UNCHANGED exec
           ELSE IF pats.remaining = <<>>
           THEN /\ ret' = [NoRet EXCEPT !.op = "triage_inbox", !.ok = TRUE,
                                        !.results = pats.pattern_proposals]
                /\ UNCHANGED exec
           ELSE /\ exec' = [pc |-> "subprocess", approved |-> <<>>,
                            queue |-> pats.remaining, results |-> pats.pattern_proposals]
                /\ ret' = NoRet
    /\ UNCHANGED <<proposals, audit, now, dispatched, applied, draftVars>>

\* triage_inbox from the end of the subprocess on.  subprocess.run raises
\* TimeoutExpired when the time is up; there is no try around it nor around
\* _parse_response, so what they raise leaves triage_inbox.
subprocess_ends(run) ==
    /\ exec.pc = "subprocess"
    /\ exec' = IdleExec
    /\ LET parsed == _parse_response(run, exec.queue)
       IN  ret' = IF run.exit = "timeout"
                  THEN [NoRet EXCEPT !.op = "triage_inbox", !.raised = TRUE]
                  ELSE IF run.exit = "nonzero"
                  THEN [NoRet EXCEPT !.op = "triage_inbox", !.ok = TRUE,
                                     !.results = exec.results]
                  ELSE IF parsed.raised
                  THEN [NoRet EXCEPT !.op = "triage_inbox", !.raised = TRUE]
                  ELSE [NoRet EXCEPT !.op = "triage_inbox", !.ok = TRUE,
                           !.results = exec.results
                              \o [i \in DOMAIN parsed.proposals |->
                                      Annotated(parsed.proposals[i])]]
    /\ UNCHANGED <<proposals, audit, now, dispatched, applied, draftVars>>

\* the two tests at the head of the loop of create_proposals_from_triage
Skipped(p, min_confidence) ==
    FloatLt(p.confidence, min_confidence) \/ p.action = "ignore"

RECURSIVE Kept(_, _)
Kept(list, min_confidence) ==
    IF list = <<>> THEN <<>>
    ELSE IF Skipped(Head(list), min_confidence) THEN Kept(Tail(list), min_confidence)
    ELSE <<Head(list)>> \o Kept(Tail(list), min_confidence)

\* the arguments of the create_proposal call at lines 222-229
TriageCreateArgs(p) ==
    [entity_type |-> IF p.item.source = "email" THEN "thread" ELSE "signal_message",
     entity_id |-> p.item.item_id, proposed_action |-> p.action,
     email |-> p.item.source = "email", skip_validation |-> TRUE]

\* create_proposals_from_triage.  A dry run collects the kept entries.
\* Otherwise the first kept entry is handed to create_proposal, which inserts
\* the row and returns two values; binding them to three names raises
\* ValueError, and the call ends there.
create_proposals_from_triage(list, min_confidence, dry_run, id) ==
    /\ exec.pc = "idle"
    /\ LET kept == Kept(list, min_confidence)
       IN  IF dry_run
           THEN /\ ret' = [NoRet EXCEPT !.op = "create_proposals_from_triage", !.ok = TRUE,
                              !.results = [i \in DOMAIN kept |-> <<"dry-run", kept[i]>>]]
                /\ UNCHANGED <<proposals, dispatched, applied>>
           ELSE IF kept = <<>>
           THEN /\ ret' = [NoRet EXCEPT !.op = "create_proposals_from_triage", !.ok = TRUE]
                /\ UNCHANGED <<proposals, dispatched, applied>>
           ELSE /\ Cardinality(StoredIds) < MaxTriaged
                /\ id \notin StoredIds
                /\ proposals' = [i \in StoredIds \cup {id} |->
                                    IF i = id THEN NewRow(TriageCreateArgs(kept[1]))
                                    ELSE proposals[i]]
                /\ dispatched' = [i \in StoredIds \cup {id} |->
                                    IF i = id THEN 0 ELSE dispatched[i]]
                /\ applied' = [i \in StoredIds \cup {id} |->
                                    IF i = id THEN 0 ELSE applied[i]]
                /\ ret' = [NoRet EXCEPT !.op = "create_proposals_from_triage",
                                        !.target = id, !.raised = TRUE]
    /\ UNCHANGED <<audit, now, exec, draftVars>>

\* --------------------------------------------------------------- daemon.py

\* time is counted in half seconds
Interval == 10           \* run(interval=5): time.sleep(interval)

\* how long one _poll_once takes: receive(timeout=1) with no message, or a
\* poll in which agent.handle_incoming answers a message
PollTicks == {2, 12}

\* the daemon process exists
Alive == daemon.pc \in {"starting", "check", "poll", "sleep", "cleanup"}

\* SIGTERM or SIGINT reaches the daemon process: handle_signal clears the
\* flag and the interrupted call goes on; before signal.signal() has
\* installed it, the default disposition ends the process where it is
handle_signal(d) ==
    IF d.handlers THEN [d EXCEPT !.running = FALSE, !.got = TRUE]
    ELSE [d EXCEPT !.pc = "terminated", !.got = TRUE]

\* run(): write the PID file; install the handlers; while running: poll,
\* sleep; then unlink the PID file and return
DaemonRun ==
    /\ \/ /\ daemon.pc = "none"
          /\ daemon' = [daemon EXCEPT !.pc = "starting", !.pidfile = TRUE,
                                      !.running = TRUE]
       \/ /\ daemon.pc = "starting"
          /\ daemon' = [daemon EXCEPT !.pc = "check", !.handlers = TRUE]
       \/ /\ daemon.pc = "check"
          /\ \E t \in PollTicks :
                daemon' = IF daemon.running
                          THEN [daemon EXCEPT !.pc = "poll", !.left = t]
                          ELSE [daemon EXCEPT !.pc = "cleanup"]
       \/ /\ daemon.pc = "poll" /\ daemon.left = 0
          /\ daemon' = [daemon EXCEPT !.pc = "sleep", !.left = Interval]
       \/ /\ daemon.pc = "sleep" /\ daemon.left = 0
          /\ daemon' = [daemon EXCEPT !.pc = "check"]
       \/ /\ daemon.pc = "cleanup"
          /\ daemon' = [daemon EXCEPT !.pc = "stopped", !.pidfile = FALSE]
    /\ UNCHANGED <<proposals, audit, now, exec, dispatched, applied, ret, tableVars, procs>>

\* stop(): get_pid; os.kill(pid, SIGTERM); up to ten times sleep(0.5) and
\* is_running(); then os.kill(pid, SIGKILL) and unlink the PID file.
\* is_running() unlinks the PID file of a process that is gone.
stop ==
    /\ \/ /\ daemon.stop = "none" /\ ~daemon.pidfile
          /\ ret' = [NoRet EXCEPT !.op = "stop", !.ok = FALSE]
          /\ UNCHANGED daemon
       \/ /\ daemon.stop = "none" /\ daemon.pidfile /\ Alive
          /\ daemon' = [handle_signal(daemon) EXCEPT !.stop = "waiting",
                                                     !.tries = 10, !.wait = 1]
          /\ UNCHANGED ret
       \/ /\ daemon.stop = "none" /\ daemon.pidfile /\ ~Alive
          /\ daemon' = [daemon EXCEPT !.pidfile = FALSE]
          /\ ret' = [NoRet EXCEPT !.op = "stop", !.ok = TRUE]
       \/ /\ daemon.stop = "waiting" /\ daemon.wait = 0
          /\ daemon.pidfile /\ Alive /\ daemon.tries > 1
          /\ daemon' = [daemon EXCEPT !.tries = @ - 1, !.wait = 1]
          /\ UNCHANGED ret
       \/ /\ daemon.stop = "waiting" /\ daemon.wait = 0
          /\ daemon.pidfile /\ Alive /\ daemon.tries = 1
          /\ daemon' = [daemon EXCEPT !.pc = "killed", !.pidfile = FALSE,
                                      !.stop = "done", !.tries = 0]
          /\ ret' = [NoRet EXCEPT !.op = "stop", !.ok = TRUE]
       \/ /\ daemon.stop = "waiting" /\ daemon.wait = 0
          /\ ~(daemon.pidfile /\ Alive)
          /\ daemon' = [daemon EXCEPT !.pidfile = FALSE, !.stop = "done"]
          /\ ret' = [NoRet EXCEPT !.op = "stop", !.ok = TRUE]
    /\ UNCHANGED <<proposals, audit, now, exec, dispatched, applied, tableVars, procs>>

\* half a second passes: only when neither process has a step to take now
HalfSecond ==
    /\ daemon.pc \notin {"starting", "check", "cleanup"}
    /\ daemon.pc \in {"poll", "sleep"} => daemon.left > 0
    /\ daemon.stop = "waiting" => daemon.wait > 0
    /\ daemon.pc \in {"poll", "sleep"} \/ daemon.stop = "waiting"
    /\ daemon' = [daemon EXCEPT
          !.left = IF daemon.pc \in {"poll", "sleep"} THEN @ - 1 ELSE @,
          !.wait = IF daemon.stop = "waiting" THEN @ - 1 ELSE @]
    /\ UNCHANGED <<proposals, audit, now, exec, dispatched, applied, ret, tableVars, procs>>

\* ---------------------------------------------------------- specification

Init ==
    /\ proposals = <<>>
    /\ audit = <<>>
    /\ now = 0
    /\ exec = IdleExec
    /\ dispatched = <<>>
    /\ applied = <<>>
    /\ ret = NoRet
    /\ drafts = <<>>
    /\ policy = DefaultPolicy
    /\ sendCalls = <<>>
    /\ gatedSent = {}
    /\ delivered = <<>>
    /\ procs = [p \in Procs |-> IdleProc]
    /\ daemon = NoDaemon

CreateProposal == \E in \in CreateInputs, exists \in BOOLEAN, id \in ProposalIds :
                      create_proposal(in, exists, id)
ApproveProposal == \E p \in IdInputs : approve_proposal(p)
RejectProposal == \E p \in IdInputs, c \in Corrections : reject_proposal(p, c)
ExecuteItem == \E env \in EnvOutcomes : ExecItem(env)

Next ==
    \/ CreateProposal
    \/ ApproveProposal
    \/ RejectProposal
    \/ ExecStart
    \/ ExecuteItem
    \/ ExecReturn
    \/ Tick

Spec == Init /\ [][Next]_vars

\* the draft store, the policy and send_draft
CreateDraft == \E in \in CreateDraftInputs, id \in DraftIds : create_draft(in, id)
ApproveDraft == \E d \in DraftIds : approve_draft(d)
MarkSent == \E d \in DraftIds : mark_sent(d)
SendDraft == \E d \in DraftIds, env \in SendEnv : send_draft(d, env)
SetPolicy == \E p \in Policies : set_policy(p)
ApproveDraftCommand == \E d \in DraftIdInputs : approve_draft_command(d)
SendCommand == \E d \in DraftIdInputs, env \in SendEnv : send_command(d, env)

NextDrafts ==
    \/ CreateDraft
    \/ ApproveDraft
    \/ MarkSent
    \/ SendDraft
    \/ SetPolicy
    \/ Tick

SpecDrafts == Init /\ [][NextDrafts]_vars

\* the draft store as the command line drives it: compose, approve, send
\* and the policy commands
NextDraftCli ==
    \/ CreateDraft
    \/ ApproveDraftCommand
    \/ SendCommand
    \/ SetPolicy
    \/ Tick

SpecDraftCli == Init /\ [][NextDraftCli]_vars

\* proposals created and decided while the auto-approve settings change
AutoApproveCommand == \E in \in AutoApproveInputs : auto_approve_command(in)

NextAuto ==
    \/ CreateProposal
    \/ ApproveProposal
    \/ RejectProposal
    \/ AutoApproveCommand

SpecAuto == Init /\ [][NextAuto]_vars

\* the functions of the proposal store, called directly
MarkExecuted == \E id \in ProposalIds : mark_executed(id)

NextStore ==
    \/ CreateProposal
    \/ ApproveProposal
    \/ RejectProposal
    \/ MarkExecuted

SpecStore == Init /\ [][NextStore]_vars

\* the triage command: triage_inbox with the subprocess it waits for, then
\* create_proposals_from_triage on the list it returned when that list is not
\* empty (cli/system.py 184-204)
TriageInbox == \E in \in TriageInputs : triage_inbox(in)

SubprocessEnds == \E run \in LlmRuns : subprocess_ends(run)

TriagePending == ret.op = "triage_inbox" /\ ret.ok /\ ret.results # <<>>

CreateProposalsFromTriage ==
    /\ TriagePending
    /\ \E m \in MinConfidences, d \in BOOLEAN, id \in ProposalIds :
          create_proposals_from_triage(ret.results, m, d, id)

NextTriage ==
    \/ TriageInbox
    \/ SubprocessEnds
    \/ CreateProposalsFromTriage

SpecTriage == Init /\ [][NextTriage]_vars

MaxRaced == 1    \* proposals in the store the two processes decide on

\* two processes approve and reject proposals of one store; the store runs
\* their statements one at a time, in any order
NextRace ==
    \/ Cardinality(StoredIds) < MaxRaced /\ CreateProposal
    \/ \E p \in Procs, op \in {"approve_proposal", "reject_proposal"},
          id \in IdInputs, c \in Corrections : decide_begin(p, op, id, c)
    \/ \E p \in Procs : decide_update(p)
    \/ \E p \in Procs : decide_log(p)

SpecRace == Init /\ [][NextRace]_vars

\* two processes run execute_approved_proposals on one store (`resolve` and
\* `triage --execute`)
NextPasses ==
    \/ Cardinality(StoredIds) < MaxRaced /\ CreateProposal
    \/ ApproveProposal
    \/ \E p \in Procs : pass_begin(p)
    \/ \E p \in Procs, env \in EnvOutcomes : pass_item(p, env)
    \/ \E p \in Procs : pass_end(p)

SpecPasses == Init /\ [][NextPasses]_vars

\* the daemon, the stop command and termination signals from elsewhere
\* (kill, Ctrl-C in the foreground).  The daemon process and the stop command
\* keep running and time keeps passing.
NextDaemon ==
    \/ DaemonRun
    \/ stop
    \/ HalfSecond
    \/ /\ Alive
       /\ daemon' = handle_signal(daemon)
       /\ UNCHANGED <<proposals, audit, now, exec, dispatched, applied, ret, tableVars, procs>>

SpecDaemon ==
    /\ Init /\ [][NextDaemon]_vars
    /\ WF_vars(DaemonRun) /\ WF_vars(stop) /\ WF_vars(HalfSecond)

\* repeated execute_approved_proposals passes whose provider calls succeed:
\* a pass that can start does start, and a pass that has started goes through
\* its loop and returns
ExecuteOk == ExecItem("ok")

NextLive ==
    \/ CreateProposal
    \/ ApproveProposal
    \/ ExecStart
    \/ ExecuteOk
    \/ ExecReturn

SpecLive ==
    /\ Init /\ [][NextLive]_vars
    /\ WF_vars(ExecStart) /\ WF_vars(ExecuteOk) /\ WF_vars(ExecReturn)

\* ------------------------------------------------------------------ claims

Range(f) == {f[x] : x \in DOMAIN f}

StatusOf(i) == proposals[i].status

ForwardTransitions ==
    {<<"pending", "approved">>, <<"pending", "rejected">>, <<"approved", "executed">>}

\* C1: across create_proposal, approve_proposal, reject_proposal and
\* execute_approved_proposals calls, every change of a proposal's status is
\* pending->approved, pending->rejected or approved->executed, no row is
\* removed, and a rejected or executed proposal never changes status again.
C1_StatusForward ==
    [][\A i \in StoredIds :
          /\ i \in DOMAIN proposals'
          /\ proposals'[i].status # StatusOf(i)
                => <<StatusOf(i), proposals'[i].status>> \in ForwardTransitions]_vars

\* C1 witness: one proposal went pending->approved->executed and another
\* pending->rejected.
C1_Witness ==
    \E i, j \in StoredIds : StatusOf(i) = "executed" /\ StatusOf(j) = "rejected"

\* C2: the executor dispatches only proposals that were approved when the
\* pass began: a pending or rejected proposal has never been dispatched and
\* never had its action applied, every proposal still in the pass's queue is
\* approved, and an executed proposal carries the approval it went through.
C2_ApprovalGate ==
    /\ \A i \in StoredIds :
          /\ StatusOf(i) \in {"pending", "rejected"}
                => dispatched[i] = 0 /\ applied[i] = 0
          /\ StatusOf(i) = "executed"
                => proposals[i].approved_at # NoTime /\ proposals[i].approved_by # NoText
          /\ dispatched[i] > 0 => proposals[i].approved_at # NoTime
    /\ \A k \in 1..Len(exec.queue) : StatusOf(exec.queue[k]) = "approved"
    /\ \A k \in 1..Len(exec.results) : exec.results[k].proposal_id \in Range(exec.approved)

\* C2 witness: a pass is running, it has dispatched a proposal, and a
\* proposal that was pending or rejected when it began is left alone.
C2_Witness ==
    /\ exec.pc = "loop"
    /\ Len(exec.results) > 0
    /\ \E j \in StoredIds : StatusOf(j) \in {"pending", "rejected"}

IsDecisionCall(r) == r.op \in {"approve_proposal", "reject_proposal"}

\* C3: approve_proposal and reject_proposal return true only for a proposal
\* whose status is pending, and then change that row alone; when they
\* return false (the proposal is approved, rejected or executed, or no row
\* has the id) every proposal row is unchanged.
C3_PendingOnly ==
    [][(ret' # ret /\ IsDecisionCall(ret'))
          => IF ret'.ok
             THEN /\ ret'.target \in StoredIds
                  /\ StatusOf(ret'.target) = "pending"
                  /\ proposals'[ret'.target].status =
                        (IF ret'.op = "approve_proposal" THEN "approved" ELSE "rejected")
                  /\ \A i \in StoredIds \ {ret'.target} : proposals'[i] = proposals[i]
             ELSE proposals' = proposals]_vars

\* C3 witness: reject_proposal returned false although rows exist, because
\* none of them is pending any more.
C3_Witness ==
    /\ ret.op = "reject_proposal"
    /\ ~ret.ok
    /\ StoredIds # {}
    /\ \A i \in StoredIds : StatusOf(i) # "pending"
    /\ \E i \in StoredIds : StatusOf(i) = "approved"

PassEnds == exec.pc = "loop" /\ exec'.pc = "idle"

\* C4: whatever the failures of single proposals (the provider returns
\* false, the provider raises, the account cannot be resolved), a pass
\* returns exactly one result per proposal that was approved when it began,
\* in that order, and every proposal whose action succeeded is executed.
C4_OneResultPerApproved ==
    [][PassEnds
          => /\ ~ret'.raised
             /\ Len(ret'.results) = Len(exec.approved)
             /\ \A k \in 1..Len(exec.approved) :
                   /\ ret'.results[k].proposal_id = exec.approved[k]
                   /\ ret'.results[k].success
                         => proposals'[exec.approved[k]].status = "executed"]_vars

ItemFails ==
    /\ exec.pc = "loop"
    /\ exec.queue # <<>>
    /\ dispatched'[Head(exec.queue)] = dispatched[Head(exec.queue)] + 1
    /\ applied' = applied

\* C5: when the action of an approved proposal fails during a pass, the
\* pass records a result for it with success=false and the error message,
\* does not call mark_executed, and leaves the proposal approved, so that
\* the next pass finds it among the approved proposals again.
C5_FailureKeepsApproved ==
    [][ItemFails
          => /\ exec'.pc = "loop"
             /\ Len(exec'.results) = Len(exec.results) + 1
             /\ exec'.results[Len(exec'.results)].proposal_id = Head(exec.queue)
             /\ ~exec'.results[Len(exec'.results)].success
             /\ exec'.results[Len(exec'.results)].error # NoText
             /\ proposals' = proposals
             /\ audit' = audit
             /\ proposals'[Head(exec.queue)].status = "approved"]_vars

\* C6: over any number of passes the action of a proposal is applied to the
\* provider at most once: once it succeeded the proposal is executed, and an
\* executed proposal is in no later pass's queue.
C6_AppliedAtMostOnce ==
    \A i \in StoredIds :
        /\ applied[i] <= 1
        /\ applied[i] = 1 <=> StatusOf(i) = "executed"
        /\ StatusOf(i) = "executed" => i \notin Range(exec.queue)

\* C6 witness: a later pass runs while a proposal executed by an earlier
\* pass is not in its list.
C6_Witness ==
    /\ exec.pc = "loop"
    /\ exec.approved # <<>>
    /\ \E i \in StoredIds :
          /\ StatusOf(i) = "executed"
          /\ applied[i] = 1
          /\ i \notin Range(exec.approved)

IsSent(d)         == drafts[d].sent_at # NoTime
IsApprovedDraft(d) == drafts[d].approved_at # NoTime

\* C7 (as claimed): in every reachable state of the draft store, whatever
\* the calls and the policy, a draft with sent_at set has approved_at set.
C7_SentImpliesApproved ==
    \A d \in DOMAIN drafts : IsSent(d) => IsApprovedDraft(d)

\* C7 (amended): every draft that send_draft marked sent while the policy
\* had require_approval=true has sent_at and approved_at set.
C7_GatedSentImpliesApproved ==
    \A d \in gatedSent : d \in DOMAIN drafts /\ IsSent(d) /\ IsApprovedDraft(d)

\* C7 witness: send_draft sent an approved draft under require_approval=true.
C7_Witness ==
    /\ ret.op = "send_draft"
    /\ ret.ok
    /\ ret.target \in gatedSent

\* C8: a new draft has approved_at and sent_at null; approve_draft sets
\* approved_at and mark_sent sets sent_at of the draft it names; no draft is
\* removed, and a field that is set is never null again.
C8_DraftFieldsMonotonic ==
    [][/\ \A d \in DOMAIN drafts :
             /\ d \in DOMAIN drafts'
             /\ IsApprovedDraft(d) => drafts'[d].approved_at # NoTime
             /\ IsSent(d) => drafts'[d].sent_at # NoTime
       /\ \A d \in DOMAIN drafts' \ DOMAIN drafts :
             drafts'[d].approved_at = NoTime /\ drafts'[d].sent_at = NoTime
       /\ (audit' # audit /\ ret'.op = "approve_draft" /\ ret'.target \in DOMAIN drafts)
             => drafts'[ret'.target].approved_at # NoTime
       /\ (audit' # audit /\ ret'.op = "mark_sent" /\ ret'.target \in DOMAIN drafts)
             => drafts'[ret'.target].sent_at # NoTime]_vars

\* C8 witness: a draft was approved, and marked sent at a later time.
C8_Witness ==
    \E d \in DOMAIN drafts :
        /\ IsApprovedDraft(d)
        /\ IsSent(d)
        /\ drafts[d].approved_at < drafts[d].sent_at
        /\ ret.op = "mark_sent"

\* the checks of validate_send that the draft and recipient violate
ViolatedChecks(d, a) ==
    {c \in {"approval", "recipient", "quota"} :
        \/ c = "approval" /\ policy.require_approval /\ drafts[d].approved_at = NoTime
        \/ c = "recipient"
              /\ \/ policy.allowed_recipients # {} /\ a \notin policy.allowed_recipients
                 \/ policy.allowed_domains # {} /\ DomainOf(a) \notin policy.allowed_domains
        \/ c = "quota"
              /\ Cardinality({i \in DOMAIN drafts : drafts[i].sent_at = now})
                    >= policy.max_daily_sends}

ErrorOf(c, a) ==
    CASE c = "approval"  -> ErrApproval
      [] c = "recipient" -> ErrRecipient(a)
      [] c = "quota"     -> ErrQuota

\* C9: validate_send evaluates the three checks without short-circuiting:
\* the error list has exactly one error for each violated check, allowed is
\* true exactly when the list is empty, and a draft that violates all three
\* gets three errors.
C9_AllErrorsCollected ==
    \A d \in DOMAIN drafts, a \in Addrs :
        LET r == validate_send(d, a) IN
        /\ Len(r.errors) = Cardinality(ViolatedChecks(d, a))
        /\ Range(r.errors) = {ErrorOf(c, a) : c \in ViolatedChecks(d, a)}
        /\ r.allowed <=> r.errors = <<>>

\* C9 witness: send_draft was refused with all three errors at once.
C9_Witness ==
    /\ ret.op = "send_draft"
    /\ ret.raised
    /\ \E a \in Addrs : ret.results = <<ErrApproval, ErrRecipient(a), ErrQuota>>

\* C10: with require_approval=true validate_send rejects every draft whose
\* approved_at is null with "draft requires approval before sending", and a
\* send_draft call neither calls the provider's send_message for such a
\* draft nor sets its sent_at.
C10_UnapprovedNeverSent ==
    /\ [](\A d \in DOMAIN drafts, a \in Addrs :
             (policy.require_approval /\ ~IsApprovedDraft(d))
                => /\ ~validate_send(d, a).allowed
                   /\ ErrApproval \in Range(validate_send(d, a).errors))
    /\ [][\A d \in DOMAIN drafts :
             (policy.require_approval /\ ~IsApprovedDraft(d) /\ ret'.op = "send_draft")
                => /\ sendCalls'[d] = sendCalls[d]
                   /\ drafts'[d] = drafts[d]]_vars

\* C10 witness: send_draft on an unapproved draft that meets every other
\* condition was refused for the missing approval alone.
C10_Witness ==
    /\ ret.op = "send_draft"
    /\ ret.raised
    /\ ret.results = <<ErrApproval>>
    /\ policy.require_approval
    /\ \E d \in DOMAIN drafts : ~IsApprovedDraft(d) /\ drafts[d].from_set /\ sendCalls[d] = 0

\* the number of drafts whose sent_at lies in the day of the clock value t
SentOnDay(rows, t) == Cardinality({i \in DOMAIN rows : rows[i].sent_at = t})

\* C11: validate_send reports "daily send limit reached" exactly when the
\* number of drafts sent within the current day is at least max_daily_sends,
\* and after every successful send_draft the number of drafts sent within
\* the day is at most the max_daily_sends in force.
C11_DailyQuota ==
    /\ [](\A d \in DOMAIN drafts, a \in Addrs :
             ErrQuota \in Range(validate_send(d, a).errors)
                <=> SentOnDay(drafts, now) >= policy.max_daily_sends)
    /\ [][(ret'.op = "send_draft" /\ drafts' # drafts)
             => SentOnDay(drafts', now') <= policy.max_daily_sends]_vars

\* C11 witness: with the day's quota used up, send_draft on a draft that
\* meets every other condition was refused for the quota alone.
C11_Witness ==
    /\ ret.op = "send_draft"
    /\ ret.raised
    /\ ret.results = <<ErrQuota>>
    /\ SentOnDay(drafts, now) = policy.max_daily_sends
    /\ \E d \in DOMAIN drafts : ~IsSent(d) /\ drafts[d].from_set

\* C12: with a non-empty allowed_recipients a recipient that is not one of
\* its entries gets the error "recipient '<addr>' not in allowlist" from
\* validate_send; validate_send reports that error exactly when
\* check_recipient_allowed returns false; and the approve command leaves a
\* draft unapproved when check_recipient_allowed returns false for its
\* recipient.
C12_RecipientCheck ==
    /\ [](\A d \in DOMAIN drafts, a \in Addrs :
             /\ (policy.allowed_recipients # {} /\ a \notin policy.allowed_recipients)
                   => /\ ~validate_send(d, a).allowed
                      /\ ErrRecipient(a) \in Range(validate_send(d, a).errors)
             /\ ErrRecipient(a) \in Range(validate_send(d, a).errors)
                   <=> ~check_recipient_allowed(a))
    /\ [][ret'.op = "approve_draft_command"
             => \A d \in DOMAIN drafts :
                   ~check_recipient_allowed(drafts[d].to_addr)
                      => d \in DOMAIN drafts' /\ drafts'[d] = drafts[d]]_vars

\* C12 witness: the approve command refused a draft whose recipient is not
\* in the non-empty allowed_recipients, and the draft is still unapproved.
C12_Witness ==
    /\ ret.op = "approve_draft_command"
    /\ ret.raised
    /\ ret.results = <<ErrRecipient("b@y.org")>>
    /\ policy.allowed_recipients = {"a@x.org"}
    /\ \E d \in DOMAIN drafts : drafts[d].to_addr = "b@y.org" /\ ~IsApprovedDraft(d)

\* C13: a send_draft call that fails leaves every draft row and the audit
\* log as they were; no send_message call is made for a draft that is
\* already sent or that validate_send refuses; and send_message has
\* returned true at most once for any draft, which is then marked sent.
C13_FailedSendNoEffect ==
    /\ [](\A d \in DOMAIN drafts : delivered[d] <= 1 /\ (delivered[d] = 1 => IsSent(d)))
    /\ [][(ret'.op = "send_draft" /\ ret'.raised)
             => drafts' = drafts /\ audit' = audit /\ delivered' = delivered]_vars
    /\ [][\A d \in DOMAIN drafts :
             (IsSent(d) \/ ~validate_send(d, drafts[d].to_addr).allowed)
                => sendCalls'[d] = sendCalls[d]]_vars

\* C13 witness: a draft that send_draft delivered was offered to send_draft
\* again and refused as already sent, and a send_message call that returned
\* false left its draft unsent.
C13_Witness ==
    /\ ret.op = "send_draft"
    /\ ret.raised
    /\ ret.results = <<"Draft already sent">>
    /\ \E d \in DOMAIN drafts : delivered[d] = 1 /\ sendCalls[d] = 1
    /\ \E d \in DOMAIN drafts : delivered[d] = 0 /\ sendCalls[d] = 1 /\ ~IsSent(d)

\* the auto-approve predicate of the Policy Engine for an action: enabled,
\* at least min_samples decisions, accuracy (approved/total) at least the
\* threshold, and the action list empty or naming the action
AutoApproveHolds(action) ==
    LET auto == policy.auto_approve
        st   == ActionStats(action)
    IN  /\ auto.enabled
        /\ st.total >= auto.min_samples
        /\ st.approved * 100 >= auto.threshold * st.total
        /\ (auto.actions = {} \/ action \in auto.actions)

NewProposals == DOMAIN proposals' \ DOMAIN proposals

\* C14 (as claimed): when create_proposal inserts a proposal whose action
\* satisfies the auto-approve predicate, the new proposal is approved right
\* after creation and its approver is not "user".
C14_AutoApprovedAtCreation ==
    [][\A i \in NewProposals :
          AutoApproveHolds(proposals'[i].proposed_action)
             => /\ proposals'[i].status = "approved"
                /\ proposals'[i].approved_by \notin {NoText, "user"}]_vars

\* C15: create_proposal leaves a new proposal approved only if the
\* auto-approve predicate holds for its action; with fewer than min_samples
\* decisions, or with auto-approve disabled, the new proposal is pending.
C15_NoUnearnedAutoApprove ==
    [][\A i \in NewProposals :
          /\ proposals'[i].status \in {"pending", "approved"}
          /\ proposals'[i].status = "approved"
                => AutoApproveHolds(proposals'[i].proposed_action)
          /\ (~policy.auto_approve.enabled
               \/ ActionStats(proposals'[i].proposed_action).total
                     < policy.auto_approve.min_samples)
                => proposals'[i].status = "pending"]_vars

\* C15 witness: with auto-approve enabled and every earlier decision on the
\* action an approval, but fewer decisions than min_samples, create_proposal
\* created a pending proposal.
C15_Witness ==
    /\ ret.op = "create_proposal"
    /\ ret.ok
    /\ policy.auto_approve.enabled
    /\ LET st == ActionStats(proposals[ret.target].proposed_action)
       IN  /\ st.total >= 1
           /\ st.approved = st.total
           /\ st.total < policy.auto_approve.min_samples
    /\ proposals[ret.target].status = "pending"

\* the fixed action set of an entity type, as the claim lists them
ListedActions(entity_type) ==
    CASE entity_type = "thread" ->
            {"archive", "delete", "flag", "unflag", "unarchive", "undelete"}
      [] entity_type = "draft" -> {"approve", "send", "delete"}
      [] entity_type = "signal_message" -> {"mark_read", "ignore"}
      [] OTHER -> {}

\* C16: a create_proposal call without skip_validation whose action is not
\* in the fixed set of its entity_type, whose entity_type is unknown, or
\* whose entity does not exist returns no id and an error message and
\* inserts no proposal row.
C16_InvalidCreateRejected ==
    [][\A in \in CreateInputs, exists \in BOOLEAN, id \in ProposalIds :
          ( /\ create_proposal(in, exists, id)
            /\ ~in.skip_validation
            /\ \/ in.proposed_action \notin ListedActions(in.entity_type)
               \/ in.entity_type \notin {"thread", "draft", "signal_message"}
               \/ ~exists )
             => /\ proposals' = proposals
                /\ ret'.op = "create_proposal"
                /\ ~ret'.ok
                /\ ret'.target = <<>>
                /\ Len(ret'.results) = 1
                /\ ret'.results[1] # NoText]_vars

\* C16 witness: next to a stored proposal, create_proposal refused an action
\* that is not in the set of its entity type.
C16_Witness ==
    /\ ret.op = "create_proposal"
    /\ ~ret.ok
    /\ ret.results = <<"Invalid action">>
    /\ Cardinality(StoredIds) = 1

\* the stored proposals whose id starts with the word p
StartingWith(p) == {i \in StoredIds : IsPrefix(p, i)}

\* C17 (as claimed): approve_proposal and reject_proposal act on a proposal
\* only if exactly one stored id starts with the given word, and then on
\* that proposal alone; when no stored id or several start with it the call
\* returns false and no proposal changes.
C17_PrefixActsOnUnique ==
    [][\A p \in IdInputs, c \in Corrections :
          (approve_proposal(p) \/ reject_proposal(p, c))
             => IF Cardinality(StartingWith(p)) = 1
                THEN /\ ret'.ok => ret'.target \in StartingWith(p)
                     /\ \A i \in StoredIds \ StartingWith(p) : proposals'[i] = proposals[i]
                ELSE /\ ~ret'.ok
                     /\ proposals' = proposals]_vars

\* the stored drafts whose id starts with the word p
DraftsStartingWith(p) == {i \in DOMAIN drafts : IsPrefix(p, i)}

\* C18: resolve_draft_id returns the full id for a prefix of exactly one
\* stored draft id and None for a prefix of none; with a prefix of none the
\* approve and send commands look the raw input up, do not find it, and
\* change nothing; with a prefix of exactly one the approve command acts on
\* that draft.
C18_DraftPrefixResolution ==
    /\ [](\A p \in DraftIdInputs :
             /\ Cardinality(DraftsStartingWith(p)) = 1
                   => resolve_draft_id(p) = DraftsStartingWith(p)
             /\ DraftsStartingWith(p) = {} => resolve_draft_id(p) = {NoDraft})
    /\ [][\A p \in DraftIdInputs :
             /\ ( /\ DraftsStartingWith(p) = {}
                  /\ \/ approve_draft_command(p)
                     \/ \E env \in SendEnv : send_command(p, env) )
                   => /\ ret'.raised
                      /\ ret'.results = <<"Draft not found">>
                      /\ drafts' = drafts
                      /\ audit' = audit
                      /\ sendCalls' = sendCalls
             /\ ( /\ Cardinality(DraftsStartingWith(p)) = 1
                  /\ ret'.op = "approve_draft_command"
                  /\ ret'.ok
                  /\ approve_draft_command(p) )
                   => ret'.target \in DraftsStartingWith(p)]_vars

\* C18 witness: with a draft stored that an earlier command approved through
\* its prefix, the send command was given a word that no draft id starts
\* with and reported the draft as not found.
C18_Witness ==
    /\ ret.op = "send_command"
    /\ ret.raised
    /\ ret.results = <<"Draft not found">>
    /\ DOMAIN drafts = {<<"a", "b">>}
    /\ IsApprovedDraft(<<"a", "b">>)

LastAudit == audit'[Len(audit')]

\* C19: a reject_proposal call that returns true appends exactly one audit
\* entry, a decision on the proposal's action whose user_decision is
\* rejected_with_correction (carrying the correction) when a non-empty
\* correction was given and rejected otherwise, and the proposal row stores
\* the correction it was given.
C19_RejectDecisionKind ==
    [][\A c \in Corrections :
          ( /\ ret'.op = "reject_proposal"
            /\ ret'.ok
            /\ proposals' # proposals
            /\ \E p \in IdInputs : reject_proposal(p, c) )
             => /\ Len(audit') = Len(audit) + 1
                /\ SubSeq(audit', 1, Len(audit)) = audit
                /\ LastAudit.action = "decision"
                /\ LastAudit.proposed_action = proposals[ret'.target].proposed_action
                /\ LastAudit.entity_id = proposals[ret'.target].entity_id
                /\ IF c \in {"delete"}
                   THEN LastAudit.user_decision = "rejected_with_correction"
                           /\ LastAudit.correction = c
                   ELSE LastAudit.user_decision = "rejected"
                /\ proposals'[ret'.target].correction = c]_vars

\* C19 witness: a proposal was rejected with the correction "delete"; the
\* newest audit entry is the rejected_with_correction decision and the row
\* holds the correction.
C19_Witness ==
    /\ ret.op = "reject_proposal"
    /\ ret.ok
    /\ proposals[ret.target].correction = "delete"
    /\ audit # <<>>
    /\ audit[Len(audit)].user_decision = "rejected_with_correction"
    /\ audit[Len(audit)].correction = "delete"

\* C20: reject_proposal called with a correction creates no proposal: the
\* stored ids are the same after the call as before it, and no row other
\* than the rejected one changes (none at all when the call returns false).
C20_CorrectionCreatesNothing ==
    [][\A c \in Corrections \ {NoText} :
          ( /\ ret'.op = "reject_proposal"
            /\ <<ret', proposals'>> # <<ret, proposals>>
            /\ \E p \in IdInputs : reject_proposal(p, c) )
             => /\ DOMAIN proposals' = DOMAIN proposals
                /\ IF ret'.ok
                   THEN /\ proposals'[ret'.target].status = "rejected"
                        /\ \A i \in StoredIds \ {ret'.target} : proposals'[i] = proposals[i]
                   ELSE proposals' = proposals]_vars

\* C20 witness: of two stored proposals one was rejected with the
\* correction "delete"; the other is still pending and there is no third.
C20_Witness ==
    /\ ret.op = "reject_proposal"
    /\ ret.ok
    /\ Cardinality(StoredIds) = 2
    /\ proposals[ret.target].correction = "delete"
    /\ \E i \in StoredIds \ {ret.target} :
          proposals[i].status = "pending" /\ proposals[i].proposed_action # "delete"

ApproveCallEnds == ret'.op = "approve_proposal" /\ ret' # ret

\* C21 (as claimed): every approve_proposal call appends a decision audit
\* entry, whether it returns true or false.
C21_ApproveAlwaysLogs ==
    [][ApproveCallEnds
          => /\ Len(audit') = Len(audit) + 1
             /\ LastAudit.action = "decision"]_vars

\* C21 (amended): an approve_proposal call that returns true appends
\* exactly one decision audit entry, user_decision approved, for the action
\* of the proposal it approved; a call that returns false leaves the audit
\* log as it was.
C21_ApproveLogsOnSuccess ==
    [][ApproveCallEnds
          => IF ret'.ok
             THEN /\ Len(audit') = Len(audit) + 1
                  /\ SubSeq(audit', 1, Len(audit)) = audit
                  /\ LastAudit.action = "decision"
                  /\ LastAudit.user_decision = "approved"
                  /\ LastAudit.proposed_action = proposals[ret'.target].proposed_action
                  /\ LastAudit.entity_id = proposals[ret'.target].entity_id
             ELSE audit' = audit]_vars

\* C21 witness: the only stored proposal was approved, a second
\* approve_proposal returned false, and the log holds the one entry of the
\* first call.
C21_Witness ==
    /\ ret.op = "approve_proposal"
    /\ ~ret.ok
    /\ Cardinality(StoredIds) = 1
    /\ \A i \in StoredIds : StatusOf(i) = "approved"
    /\ Len(audit) = 1
    /\ audit[1].user_decision = "approved"

\* the approval times along a list of proposal ids never decrease
AscendingByApproval(ids) ==
    \A j, k \in 1..Len(ids) :
        j < k => proposals[ids[j]].approved_at <= proposals[ids[k]].approved_at

ResultIds(results) == [k \in 1..Len(results) |-> results[k].proposal_id]

\* C22: a pass takes the approved proposals in ascending order of
\* approved_at: the list it iterates over is in that order, the results so
\* far are for its first proposals in that order, the queue is the rest,
\* and a returned result list is in ascending order of approved_at.
C22_OldestApprovalFirst ==
    /\ AscendingByApproval(exec.approved)
    /\ exec.pc = "loop"
          => /\ ResultIds(exec.results) = SubSeq(exec.approved, 1, Len(exec.results))
             /\ exec.queue = SubSeq(exec.approved, Len(exec.results) + 1,
                                    Len(exec.approved))
    /\ (ret.op = "execute_approved_proposals" /\ ret.ok)
          => AscendingByApproval(ResultIds(ret.results))

\* C22 witness: a pass returned two results, the first for the proposal
\* approved earlier, the second for the one approved later.
C22_Witness ==
    /\ ret.op = "execute_approved_proposals"
    /\ ret.ok
    /\ Len(ret.results) = 2
    /\ proposals[ret.results[1].proposal_id].approved_at
          < proposals[ret.results[2].proposal_id].approved_at

\* a proposal the executor cannot carry out: no branch for its entity type,
\* or an action its entity type does not know
Unhandled(row) ==
    CASE row.entity_type = "thread" -> row.proposed_action \notin VALID_THREAD_ACTIONS
      [] row.entity_type = "signal_message" -> row.proposed_action \notin VALID_SIGNAL_ACTIONS
      [] OTHER -> TRUE

\* C23: when the executor reaches an approved proposal whose entity type it
\* does not handle, or whose action is unknown for its entity type, the step
\* appends a failure result for that proposal, leaves every proposal row as it
\* was (the proposal is not marked executed), writes no audit entry, and the
\* pass goes on with the rest of the queue.
C23_UnknownIsFailure ==
    [][(/\ exec.pc = "loop"
        /\ exec.queue # <<>>
        /\ exec' # exec
        /\ Unhandled(proposals[Head(exec.queue)]))
       => /\ exec'.pc = "loop"
          /\ exec'.approved = exec.approved
          /\ exec'.queue = Tail(exec.queue)
          /\ Len(exec'.results) = Len(exec.results) + 1
          /\ SubSeq(exec'.results, 1, Len(exec.results)) = exec.results
          /\ LET r == exec'.results[Len(exec'.results)]
             IN  /\ r.proposal_id = Head(exec.queue)
                 /\ ~r.success
                 /\ r.error # NoText
          /\ proposals' = proposals
          /\ audit' = audit
          /\ ret' = ret]_vars

\* C23 witness: a pass returned two results; the first is the failure of a
\* proposal the executor cannot carry out, which is still approved, and the
\* second is the success of the proposal that came after it.
C23_Witness ==
    /\ ret.op = "execute_approved_proposals"
    /\ ret.ok
    /\ Len(ret.results) = 2
    /\ Unhandled(proposals[ret.results[1].proposal_id])
    /\ ~ret.results[1].success
    /\ ret.results[1].error \in {"Unknown entity type", "Unknown action"}
    /\ proposals[ret.results[1].proposal_id].status = "approved"
    /\ ret.results[2].success
    /\ proposals[ret.results[2].proposal_id].status = "executed"

\* `a >= b` on floats: false as soon as one side is NaN
FloatGe(a, b) == a # NaN /\ b # NaN /\ a >= b

\* the rows a step inserts
InsertedRows == {proposals'[i] : i \in DOMAIN proposals' \ StoredIds}

\* the row is the proposal of triage entry p
RowOf(row, p) ==
    /\ row.entity_id = p.item.item_id
    /\ row.proposed_action = p.action

TriageCreateEnds == TriagePending /\ ret'.op = "create_proposals_from_triage"

\* C24: every proposal row create_proposals_from_triage inserts is the
\* proposal of a triage entry whose confidence is >= min_confidence and whose
\* action is not ignore.
C24_OnlyConfidentPersisted ==
    [][TriageCreateEnds =>
          \A m \in MinConfidences, d \in BOOLEAN, id \in ProposalIds :
             create_proposals_from_triage(ret.results, m, d, id) =>
                \A row \in InsertedRows :
                   \E k \in DOMAIN ret.results :
                      /\ RowOf(row, ret.results[k])
                      /\ FloatGe(ret.results[k].confidence, m)
                      /\ ret.results[k].action # "ignore"]_vars

\* C24, as far as it holds: every row inserted is the proposal of an entry
\* whose confidence does not compare below min_confidence and whose action is
\* not ignore.
C24_OnlyNotBelowPersisted ==
    [][TriageCreateEnds =>
          \A m \in MinConfidences, d \in BOOLEAN, id \in ProposalIds :
             create_proposals_from_triage(ret.results, m, d, id) =>
                \A row \in InsertedRows :
                   \E k \in DOMAIN ret.results :
                      /\ RowOf(row, ret.results[k])
                      /\ ~FloatLt(ret.results[k].confidence, m)
                      /\ ret.results[k].action # "ignore"]_vars

\* the triage entries of the pairs create_proposals_from_triage returns
EntriesOf(created) == [k \in DOMAIN created |-> created[k][2]]

\* C25: a dry run inserts no proposal and writes no audit entry, and the
\* entries it returns (the entries that pass the two tests) are the entries
\* the same call without dry_run returns with a created proposal.
C25_DryRunPreviewsCreation ==
    [][TriageCreateEnds =>
          \A m \in MinConfidences, id \in ProposalIds :
             /\ create_proposals_from_triage(ret.results, m, TRUE, id) =>
                   /\ proposals' = proposals
                   /\ audit' = audit
                   /\ EntriesOf(ret'.results) = Kept(ret.results, m)
             /\ create_proposals_from_triage(ret.results, m, FALSE, id) =>
                   /\ ret'.ok
                   /\ EntriesOf(ret'.results) = Kept(ret.results, m)]_vars

\* the output is empty or unparseable, is JSON but no array of objects, or
\* has an object whose confidence is no number
Malformed(run) ==
    LET data == StripFence(run)
    IN  \/ data.kind # "array"
        \/ \E i \in DOMAIN data.elems :
              \/ data.elems[i].kind # "object"
              \/ /\ "confidence" \in data.elems[i].has
                 /\ data.elems[i].confidence.t \in {"text", "null"}

\* C26: when the subprocess exits with 0 and a malformed or empty output,
\* triage_inbox returns, and returns the pattern proposals.
C26_MalformedOutputIsSoft ==
    [][exec.pc = "subprocess" =>
          \A run \in LlmRuns :
             (run.exit = "zero" /\ Malformed(run) /\ subprocess_ends(run)) =>
                /\ ret'.op = "triage_inbox"
                /\ ret'.ok
                /\ ret'.results = exec.results]_vars

\* C27: when the subprocess times out or exits with a nonzero status,
\* triage_inbox returns, and returns the pattern proposals.
C27_TimeoutLikeNonzeroExit ==
    [][exec.pc = "subprocess" =>
          \A run \in LlmRuns :
             (run.exit \in {"timeout", "nonzero"} /\ subprocess_ends(run)) =>
                /\ ret'.op = "triage_inbox"
                /\ ret'.ok
                /\ ret'.results = exec.results]_vars

\* C28: in the list triage_inbox returns, the entries after the pattern
\* proposals are the parsed entries of the output, each with its item, action
\* and confidence as parsed; the reasoning of a delete or flag entry is as
\* parsed whatever the urgency of its item, and the reasoning of any other
\* entry has the urgency note appended exactly when the urgency of its item
\* is at or above the limit.
C28_UrgencyKeepsLlmAction ==
    [][exec.pc = "subprocess" =>
          \A run \in LlmRuns :
             (run.exit = "zero" /\ ret'.ok /\ subprocess_ends(run)) =>
                LET parsed == _parse_response(run, exec.queue).proposals
                    n      == Len(exec.results)
                IN  /\ Len(ret'.results) = n + Len(parsed)
                    /\ SubSeq(ret'.results, 1, n) = exec.results
                    /\ \A k \in DOMAIN parsed :
                          LET p == parsed[k]
                              q == ret'.results[n + k]
                          IN  /\ q.item = p.item
                              /\ q.action = p.action
                              /\ q.confidence = p.confidence
                              /\ q.reasoning =
                                    IF p.action \in {"delete", "flag"} THEN p.reasoning
                                    ELSE IF p.item.urgency >= 60
                                    THEN p.reasoning \o <<"[urgent]">>
                                    ELSE p.reasoning]_vars

\* C28 witness: triage_inbox returned a delete entry issued by the model for
\* an urgent item with its reasoning as the model gave it, or an archive
\* entry issued by the model for an urgent item with the note appended.
C28_Witness ==
    /\ ret.op = "triage_inbox"
    /\ ret.ok
    /\ \E k \in DOMAIN ret.results :
          /\ ret.results[k].item.urgency >= 60
          /\ ret.results[k].action = "delete"
          /\ ret.results[k].reasoning = <<"why">>
          /\ ret.results[k].confidence = 70

\* the actions proposals are created with
ProposedActions == {in.proposed_action : in \in CreateInputs}

\* the decision audit entries for an action, and those of one kind
DecisionCount(log, action) ==
    Cardinality({k \in 1..Len(log) :
                    log[k].action = "decision" /\ log[k].proposed_action = action})

KindCount(log, action, kind) ==
    Cardinality({k \in 1..Len(log) :
                    /\ log[k].action = "decision"
                    /\ log[k].proposed_action = action
                    /\ log[k].user_decision = kind})

DecideCallEnds ==
    ret'.op \in {"approve_proposal", "reject_proposal"} /\ ret' # ret

\* C29: for every action the statistics have total = the number of decision
\* audit entries for the action = approved + rejected + corrected, and the
\* accuracy is approved/total; an action is listed exactly when it has an
\* entry.  A successful approve_proposal or reject_proposal raises the total
\* of the proposal's action by one and exactly one of the three counters by
\* one, and leaves the statistics of the other actions alone; a failed one
\* changes no counter.
C29_StatsCountDecisions ==
    /\ [](\A a \in ProposedActions :
            /\ ActionStats(a).total = DecisionCount(audit, a)
            /\ ActionStats(a).approved = KindCount(audit, a, "approved")
            /\ ActionStats(a).rejected = KindCount(audit, a, "rejected")
            /\ ActionStats(a).corrected = KindCount(audit, a, "rejected_with_correction")
            /\ ActionStats(a).total
                  = ActionStats(a).approved + ActionStats(a).rejected
                       + ActionStats(a).corrected
            /\ a \in StatsActions <=> ActionStats(a).total > 0
            /\ a \in StatsActions =>
                  Accuracy(a) = <<ActionStats(a).approved, ActionStats(a).total>>)
    /\ [][DecideCallEnds =>
            \A a \in ProposedActions :
               LET before == ActionStats(a)
                   after  == [total |-> DecisionCount(audit', a),
                              approved |-> KindCount(audit', a, "approved"),
                              rejected |-> KindCount(audit', a, "rejected"),
                              corrected |-> KindCount(audit', a, "rejected_with_correction")]
               IN  IF ret'.ok /\ proposals[ret'.target].proposed_action = a
                   THEN /\ after.total = before.total + 1
                        /\ \E f \in {"approved", "rejected", "corrected"} :
                              /\ after[f] = before[f] + 1
                              /\ \A g \in {"approved", "rejected", "corrected"} \ {f} :
                                    after[g] = before[g]
                   ELSE after = before]_vars

\* C29 witness: two archive proposals were decided, one approved and the
\* other rejected with a correction, and the statistics of archive show it.
C29_Witness ==
    /\ ret.op = "reject_proposal"
    /\ ret.ok
    /\ ActionStats("archive")
          = [total |-> 2, approved |-> 1, rejected |-> 0, corrected |-> 1]
    /\ Accuracy("archive") = <<1, 2>>

\* C30 (as claimed): with auto-approve enabled and the action list empty,
\* create_proposal approves a new proposal at creation exactly when
\* suggest_auto_approve, called with the threshold and min_samples of the
\* policy, lists the proposal's action.
C30_GateAgreesWithSuggestion ==
    [][\A i \in NewProposals :
          (policy.auto_approve.enabled /\ policy.auto_approve.actions = {})
             => (proposals'[i].status = "approved"
                   <=> proposals'[i].proposed_action
                          \in suggest_auto_approve(policy.auto_approve.threshold,
                                                   policy.auto_approve.min_samples))]_vars

\* C31: the audit log is append-only: every step leaves the entries that
\* were there in place, unchanged and in the same order, and at most adds
\* entries after them.
C31_AuditAppendOnly ==
    [][/\ Len(audit') >= Len(audit)
       /\ SubSeq(audit', 1, Len(audit)) = audit]_vars

\* C31 witness: the log holds the approval of a proposal and, after it, the
\* execute entry the executor wrote for the same entity.
C31_Witness ==
    /\ Len(audit) >= 2
    /\ audit[1].action = "decision"
    /\ audit[2].action = "execute"
    /\ audit[2].entity_id = audit[1].entity_id

\* C34: mark_executed on a stored proposal sets its status to executed and
\* its executed_at to the time of the call whatever its status was, leaves
\* the other rows alone, appends one execute audit entry for the proposal's
\* entity and returns true.
C34_MarkExecutedUnconditional ==
    [][ret'.op = "mark_executed" =>
          \A id \in StoredIds :
             mark_executed(id) =>
                /\ proposals' = [proposals EXCEPT ![id].status = "executed",
                                                  ![id].executed_at = now]
                /\ audit' = Append(audit, LastAudit)
                /\ LastAudit.action = "execute"
                /\ LastAudit.entity_type = proposals[id].entity_type
                /\ LastAudit.entity_id = proposals[id].entity_id
                /\ ret'.ok]_vars

\* C34 witness: mark_executed has just returned for a proposal that had been
\* rejected; the proposal is executed and the last audit entry is its
\* execute entry.
C34_Witness ==
    /\ ret.op = "mark_executed"
    /\ ret.ok
    /\ ret.target \in StoredIds
    /\ proposals[ret.target].status = "executed"
    /\ proposals[ret.target].rejected_at # NoTime
    /\ proposals[ret.target].executed_at # NoTime
    /\ audit # <<>>
    /\ audit[Len(audit)].action = "execute"

\* C35 (as claimed, for the proposal store): a step that inserts a proposal
\* or changes the status of one appends exactly one audit entry, an entry
\* for that proposal's entity; a call that returns false appends none.
C35_EveryTransitionLogged ==
    [][/\ \A i \in DOMAIN proposals' :
             (i \notin StoredIds \/ proposals'[i].status # proposals[i].status)
                => /\ Len(audit') = Len(audit) + 1
                   /\ SubSeq(audit', 1, Len(audit)) = audit
                   /\ LastAudit.entity_type = proposals'[i].entity_type
                   /\ LastAudit.entity_id = proposals'[i].entity_id
       /\ (ret' # ret /\ ~ret'.ok /\ ~ret'.raised) => audit' = audit]_vars

\* C36 (as claimed): every stored proposal has one of the three entity types
\* and an action of the fixed set of its entity type.
C36_PersistedActionsValid ==
    \A i \in StoredIds :
       \/ /\ proposals[i].entity_type = "thread"
          /\ proposals[i].proposed_action \in VALID_THREAD_ACTIONS
       \/ /\ proposals[i].entity_type = "draft"
          /\ proposals[i].proposed_action \in VALID_DRAFT_ACTIONS
       \/ /\ proposals[i].entity_type = "signal_message"
          /\ proposals[i].proposed_action \in VALID_SIGNAL_ACTIONS

\* the positions of a sequence that hold x
Places(seq, x) == {k \in DOMAIN seq : seq[k] = x}

\* C37: of the items triage_inbox gives to _apply_patterns, an email item a
\* pattern matches gets one pattern proposal, flag with the urgency score as
\* confidence when the score is >= 0.6 and the pattern's action and
\* confidence otherwise, and is not among the items handed to the model;
\* every other item, signal items always, is among the remaining items once
\* and gets no pattern proposal.
C37_PatternsSplitItems ==
    [][(exec.pc = "idle" /\ (exec'.pc = "subprocess" \/ ret'.op = "triage_inbox")) =>
          \A in \in TriageInputs :
             triage_inbox(in) =>
                LET items == NotSnoozed(in.inbox, in.snoozed)
                    pats  == IF exec'.pc = "subprocess" THEN exec'.results ELSE ret'.results
                    rest  == IF exec'.pc = "subprocess" THEN exec'.queue ELSE <<>>
                    owner == [k \in DOMAIN pats |-> pats[k].item]
                IN  /\ Len(pats) + Len(rest) = Len(items)
                    /\ \A k \in DOMAIN items :
                          LET it == items[k]
                          IN  IF it.source = "email" /\ it.match.hit
                              THEN /\ Places(rest, it) = {}
                                   /\ Cardinality(Places(owner, it)) = 1
                                   /\ \A j \in Places(owner, it) :
                                         IF it.urgency >= 60
                                         THEN /\ pats[j].action = "flag"
                                              /\ pats[j].confidence = it.urgency
                                         ELSE /\ pats[j].action = it.match.action
                                              /\ pats[j].confidence = it.match.confidence
                              ELSE /\ Cardinality(Places(rest, it)) = 1
                                   /\ Places(owner, it) = {}]_vars

\* C37 witness: triage_inbox waits for the subprocess with one pattern
\* proposal, the flag forced by an urgency of exactly 0.6 on an item whose
\* pattern said archive, and one remaining item that no pattern matched.
C37_Witness ==
    /\ exec.pc = "subprocess"
    /\ Len(exec.results) = 1
    /\ exec.results[1].item.match.action = "archive"
    /\ exec.results[1].item.urgency = 60
    /\ exec.results[1].action = "flag"
    /\ exec.results[1].confidence = 60
    /\ Len(exec.queue) = 1
    /\ ~exec.queue[1].match.hit

\* no pass is running and one more pass can start
PassAhead == exec.pc = "idle" /\ \A j \in StoredIds : dispatched[j] < MaxDispatch

\* proposal i is approved, of one of the given entity types, with an action
\* of that type's fixed set
ApprovedValid(i, types) ==
    /\ i \in StoredIds
    /\ proposals[i].status = "approved"
    /\ proposals[i].entity_type \in types
    /\ \/ /\ proposals[i].entity_type = "thread"
          /\ proposals[i].proposed_action \in VALID_THREAD_ACTIONS
       \/ /\ proposals[i].entity_type = "draft"
          /\ proposals[i].proposed_action \in VALID_DRAFT_ACTIONS
       \/ /\ proposals[i].entity_type = "signal_message"
          /\ proposals[i].proposed_action \in VALID_SIGNAL_ACTIONS

Executed(i) == i \in StoredIds /\ proposals[i].status = "executed"

C38_ThreadSignalEventuallyExecuted ==
    \A i \in ProposalIds :
       (PassAhead /\ ApprovedValid(i, {"thread", "signal_message"})) ~> Executed(i)

\* the processes whose call `op` on proposal i returned True
Winners(i) == {p \in Procs : \E op \in {"approve_proposal", "reject_proposal"} :
                                 <<i, op>> \in procs[p].done}

\* C32 (as claimed): of the approve_proposal and reject_proposal calls two
\* processes make on one proposal at most one returns True, the status of the
\* proposal is the one that call wrote, and the log holds one decision entry
\* for each decided proposal.
C32_OneDecisionWins ==
    /\ \A i \in StoredIds : Cardinality(Winners(i)) <= 1
    /\ \A p \in Procs : \A d \in procs[p].done :
          proposals[d[1]].status =
             (IF d[2] = "approve_proposal" THEN "approved" ELSE "rejected")
    /\ Cardinality({k \in DOMAIN audit : audit[k].action = "decision"})
          <= Cardinality({i \in StoredIds : proposals[i].status # "pending"})

\* C39 (as claimed): two passes that run at the same time never both dispatch
\* the same proposal, the provider action of a proposal takes effect at most
\* once, and the log holds one execute entry for each executed proposal.
C39_NoDoubleDispatch ==
    /\ \A i \in StoredIds :
          /\ ~(\A p \in Procs : procs[p].pc = "loop" /\ <<i, "dispatch">> \in procs[p].done)
          /\ applied[i] <= 1
    /\ Cardinality({k \in DOMAIN audit : audit[k].action = "execute"})
          <= Cardinality({i \in StoredIds : proposals[i].status = "executed"})

\* C33 (as claimed): a daemon in its polling loop (its handlers are
\* installed) that a termination signal has reached is not ended from
\* outside: it is not killed in the poll or the sleep it is in, it goes on to
\* the end of run(), and once it has stopped its PID file is gone.
C33_SignalledDaemonStopsItself ==
    (daemon.got /\ daemon.handlers) =>
       /\ daemon.pc # "killed"
       /\ daemon.pc = "stopped" => ~daemon.pidfile

====
